---- MODULE Spec2Model ----
(***************************************************************************)
(* Model of the WorkflowEditor class (the monolithic editor): the node /   *)
(* connection store, selection, the connection-drawing gesture, clipboard, *)
(* clearCanvas, and loading / importing a serialized workflow.             *)
(*                                                                         *)
(* Conventions                                                             *)
(*  - A JS string that the code parses (a node id) is a sequence of        *)
(*    one-character strings, so that split('_') and parseInt are computed. *)
(*  - null / undefined / a missing property is the empty sequence <<>>;    *)
(*    an optional value v that is present is <<v>>.                        *)
(*  - A JS Map is a sequence of its values in insertion order; the key of  *)
(*    an entry is its id field (every set() in the code uses value.id).    *)
(***************************************************************************)
EXTENDS Integers, Sequences, FiniteSets, TLC

VARIABLES
    nodes,              \* this.nodes (Map id -> node), insertion order
    connections,        \* this.connections (Map id -> connection)
    nodeCounter,        \* this.nodeCounter
    selectedNode,       \* this.selectedNode (Null or a node id)
    selectedConnection, \* this.selectedConnection (Null or a connection id)
    isDragging,         \* this.isDragging
    isPanning,          \* this.isPanning
    isConnecting,       \* this.isConnecting
    connectionStart,    \* this.connectionStart (Null or <<[nodeId, handle]>>)
    tempLine,           \* the .temp-connection path element: Null when absent,
                        \* else <<d>> with d Null or the pointer position its
                        \* 'd' attribute was last computed from
    lastMousePos,       \* this.lastMousePos
    moveCount,          \* history: number of mousemove events handled
    clipboard,          \* this.clipboard (Null or <<node>>)
    canvasOffset,       \* this.canvasOffset, {x, y} of fractions
    zoomLevel,          \* this.zoomLevel, a fraction [num, den]
    zoomCount,          \* history: number of wheel / zoom-button operations
    workflowData,       \* this.workflowData
    isDirty,            \* this.isDirty (undefined counts as FALSE)
    pendingLoads,       \* number of setTimeout callbacks of loadWorkflow not yet run
    importCount,        \* history: number of imports that went ahead
    clock,              \* Date.now(), a logical clock read by addConnection
    usedIds,            \* history: every node id ever put into this.nodes
    dragOrigin,         \* history: Null, or <<[id, position, pointer]>> of the
                        \* mousedown on a node that started the gesture in progress
    editCount,          \* history: number of property-form edits handled
    workflowId,         \* this.workflowId (Null or an id given by the server)
    requests,           \* per operation of the API, where its fetch stands:
                        \* "idle", "fetch" (awaiting the response) or "json"
                        \* (awaiting response.json())
    isLoading,          \* this.isLoading of the modular editor
    inFlight,           \* the calls of saveWorkflow that await their response, in
                        \* the order they were made: [kind, method, id, body, phase,
                        \* silent, afterDuplicate]
    savedGraph,         \* history: the body of the last save the server confirmed,
                        \* or the graph as loaded
    awaitingCreate,     \* history: duplicateWorkflow ran and no POST sent since
                        \* then has succeeded
    pollCount,          \* pollCount of the closure made by pollExecutionStatus
    pollPhase,          \* where the poll closure stands: "idle", "fetch", "json",
                        \* "timer" (setTimeout outstanding), "logs" or "stopped"
    pollRequests,       \* history: status requests sent for the execution
    logsPhase,          \* where loadExecutionLogs stands: "idle", "fetch", "json"
                        \* or "done"
    logsLoaded,         \* history: number of calls of loadExecutionLogs
    lastOp              \* history: the operation that produced this state

vars == <<nodes, connections, nodeCounter, selectedNode, selectedConnection,
          isDragging, isPanning, isConnecting, connectionStart, tempLine,
          lastMousePos, moveCount, clipboard, canvasOffset, zoomLevel, zoomCount,
          workflowData, isDirty, pendingLoads, importCount, clock, usedIds,
          dragOrigin, editCount, workflowId, requests, isLoading, inFlight,
          savedGraph, awaitingCreate, pollCount, pollPhase, pollRequests,
          logsPhase, logsLoaded, lastOp>>

viewVars == <<canvasOffset, zoomLevel, zoomCount>>
dragVars == <<isDragging, isPanning, lastMousePos, moveCount>>
loadVars == <<workflowData, pendingLoads, importCount>>
serverVars == <<workflowId, requests, isLoading, inFlight, savedGraph, awaitingCreate>>
pollVars == <<pollCount, pollPhase, pollRequests, logsPhase, logsLoaded>>

Null == <<>>

\* the value undefined where a string is expected (a property the file does not
\* have): strings are sequences of single characters, so it equals none of them
Undefined == <<"undefined">>

IsString(v) == v # Undefined

(***************************************************************************)
(* Bounds of the model.                                                    *)
(***************************************************************************)
MaxCounter == 3      \* createNode / duplicateNode / pasteNode stop at this counter
MaxClock == 1        \* addConnection is called at most this many times
MaxPending == 1      \* loadWorkflow timers that may be outstanding together
MaxImports == 1      \* imports that go ahead
MaxZoomCount == 3    \* wheel and zoom-button operations
MaxMoves == 2        \* mousemove events
MaxCalls == 2        \* direct calls of addConnection
MaxEdits == 1        \* change / input events of the properties form
MaxInFlight == 2     \* calls of saveWorkflow that await their response together

(***************************************************************************)
(* Program constants.                                                      *)
(***************************************************************************)
gridSize == 20       \* this.gridSize
maxPolls == 60       \* const maxPolls = 60
DefaultTimeout == 30 \* node.timeout || 30
PasteOffset == 50    \* newNode.position.x += 50
NodeWidth == 200     \* node.position.x + 200
NodeHeight == 100    \* node.position.y + 100
FitMargin == 100     \* rect.width - 100

(***************************************************************************)
(* Numbers of the viewport as exact fractions [num, den] in lowest terms   *)
(* with den > 0: the arithmetic of the code without its rounding error.    *)
(***************************************************************************)
Abs(n) == IF n < 0 THEN 0 - n ELSE n

RECURSIVE Gcd(_, _)
Gcd(a, b) == IF b = 0 THEN a ELSE Gcd(b, a % b)

Frac(n, d) ==
    LET g == Gcd(Abs(n), Abs(d))
        sgn == IF d < 0 THEN 0 - 1 ELSE 1
    IN [num |-> sgn * (n \div g), den |-> sgn * (d \div g)]

Rat(n) == [num |-> n, den |-> 1]

\* sums over the least common denominator, products reduced crosswise first
RAdd(a, b) ==
    LET g == Gcd(a.den, b.den)
    IN Frac(a.num * (b.den \div g) + b.num * (a.den \div g), (a.den \div g) * b.den)
RSub(a, b) == RAdd(a, [num |-> 0 - b.num, den |-> b.den])
RMul(a, b) ==
    LET g1 == Gcd(Abs(a.num), b.den)
        g2 == Gcd(Abs(b.num), a.den)
    IN IF a.num = 0 \/ b.num = 0 THEN Rat(0)
       ELSE Frac((a.num \div g1) * (b.num \div g2), (a.den \div g2) * (b.den \div g1))
RDiv(a, b) == RMul(a, Frac(b.den, b.num))
RLess(a, b) ==
    LET g == Gcd(a.den, b.den)
    IN a.num * (b.den \div g) < b.num * (a.den \div g)
RLeq(a, b) == ~RLess(b, a)
\* Math.min / Math.max
RMin(a, b) == IF RLess(b, a) THEN b ELSE a
RMax(a, b) == IF RLess(a, b) THEN b ELSE a
\* Math.round: the nearest integer, halves upwards
RRound(a) == (2 * a.num + a.den) \div (2 * a.den)

(***************************************************************************)
(* Strings as character sequences: String.split and parseInt.              *)
(***************************************************************************)
Digits == <<"0", "1", "2", "3", "4", "5", "6", "7", "8", "9">>

IsDigit(c) == \E i \in 1..10 : Digits[i] = c

DigitVal(c) == (CHOOSE i \in 1..10 : Digits[i] = c) - 1

RECURSIVE ToStr(_)
\* the decimal digits of a natural number: `${n}`
ToStr(n) == IF n < 10 THEN <<Digits[n + 1]>>
            ELSE ToStr(n \div 10) \o <<Digits[(n % 10) + 1]>>

RECURSIVE SplitFrom(_, _, _)
\* s.split(sep): cur is the segment being read
SplitFrom(s, sep, cur) ==
    IF s = <<>> THEN <<cur>>
    ELSE IF Head(s) = sep THEN <<cur>> \o SplitFrom(Tail(s), sep, <<>>)
    ELSE SplitFrom(Tail(s), sep, Append(cur, Head(s)))

Split(s, sep) == SplitFrom(s, sep, <<>>)

\* arr[i] for a 0-based index: undefined (Null) when out of range
ArrayAt(arr, i) == IF i + 1 \in DOMAIN arr THEN <<arr[i + 1]>> ELSE Null

RECURSIVE DigitPrefix(_, _)
\* value of the longest prefix of decimal digits of s, starting from acc
DigitPrefix(s, acc) ==
    IF s = <<>> \/ ~IsDigit(Head(s)) THEN acc
    ELSE DigitPrefix(Tail(s), 10 * acc + DigitVal(Head(s)))

NaN == [nan |-> TRUE, val |-> 0]

\* parseInt(x) for x undefined or a string over letters, digits, '_', '+', '-':
\* an optional sign, then the longest run of decimal digits; NaN without a digit
ParseInt(opt) ==
    IF opt = Null THEN NaN
    ELSE LET s == opt[1]
             signed == s # <<>> /\ Head(s) \in {"-", "+"}
             body == IF signed THEN Tail(s) ELSE s
         IN IF body = <<>> \/ ~IsDigit(Head(body)) THEN NaN
            ELSE [nan |-> FALSE,
                  val |-> IF signed /\ Head(s) = "-"
                          THEN 0 - DigitPrefix(body, 0)
                          ELSE DigitPrefix(body, 0)]

\* a > b in JS where a is a parseInt result: false when a is NaN
GreaterThan(a, b) == ~a.nan /\ a.val > b

NodePrefix == <<"n", "o", "d", "e", "_">>

\* `node_${n}`
NodeIdOf(n) == NodePrefix \o ToStr(n)

\* parseInt(node.id.split('_')[1])
NumericId(id) == ParseInt(ArrayAt(Split(id, "_"), 1))

(***************************************************************************)
(* Map operations on insertion-ordered sequences of records with an id.    *)
(***************************************************************************)
MapKeys(m) == {m[i].id : i \in DOMAIN m}

MapHas(m, k) == k \in MapKeys(m)

MapGet(m, k) == m[CHOOSE i \in DOMAIN m : m[i].id = k]

\* Map.prototype.set: replace in place when the key exists, else append
MapSet(m, v) ==
    IF MapHas(m, v.id)
    THEN [i \in DOMAIN m |-> IF m[i].id = v.id THEN v ELSE m[i]]
    ELSE Append(m, v)

RECURSIVE MapDelete(_, _)
MapDelete(m, k) ==
    IF m = <<>> THEN <<>>
    ELSE IF Head(m).id = k THEN MapDelete(Tail(m), k)
    ELSE <<Head(m)>> \o MapDelete(Tail(m), k)

(***************************************************************************)
(* The built-in node type catalog (loadDefaultNodeTypes).                  *)
(***************************************************************************)
NodeTypeNames ==
    {"webhook_trigger", "schedule_trigger", "manual_trigger", "http_request",
     "database_query", "data_transform", "json_parser", "condition", "switch",
     "email_send", "slack_notification", "delay", "database_save", "file_export"}

Category(t) ==
    CASE t \in {"webhook_trigger", "schedule_trigger", "manual_trigger"} -> "trigger"
      [] t \in {"http_request", "database_query"} -> "data"
      [] t \in {"data_transform", "json_parser"} -> "transform"
      [] t \in {"condition", "switch"} -> "condition"
      [] t \in {"email_send", "slack_notification", "delay"} -> "action"
      [] t \in {"database_save", "file_export"} -> "output"

DisplayName(t) ==
    CASE t = "webhook_trigger" -> "Webhook"
      [] t = "schedule_trigger" -> "Schedule"
      [] t = "manual_trigger" -> "Manual"
      [] t = "http_request" -> "HTTP Request"
      [] t = "database_query" -> "Database Query"
      [] t = "data_transform" -> "Transform Data"
      [] t = "json_parser" -> "JSON Parser"
      [] t = "condition" -> "Condition"
      [] t = "switch" -> "Switch"
      [] t = "email_send" -> "Send Email"
      [] t = "slack_notification" -> "Slack Notification"
      [] t = "delay" -> "Delay"
      [] t = "database_save" -> "Save to Database"
      [] t = "file_export" -> "Export to File"

\* getDefaultConfig: the schema fields that carry a default, with that default
getDefaultConfig(t) ==
    CASE t = "webhook_trigger" -> [method |-> "POST"]
      [] t = "schedule_trigger" -> [timezone |-> "UTC"]
      [] t = "manual_trigger" -> <<>>
      [] t = "http_request" -> [method |-> "GET", timeout |-> 30]
      [] t = "database_query" -> [query_type |-> "SELECT", fields |-> "*", limit |-> 100]
      [] t = "data_transform" -> [transform_type |-> "map"]
      [] t = "json_parser" -> [operation |-> "parse", json_field |-> "data"]
      [] t = "condition" -> [operator |-> "equals", logic_operator |-> "AND"]
      [] t = "switch" -> <<>>
      [] t = "email_send" -> <<>>
      [] t = "slack_notification" -> [username |-> "Workflow Bot"]
      [] t = "delay" -> [delay_seconds |-> 1, delay_type |-> "fixed",
                         min_delay |-> 1, max_delay |-> 5]
      [] t = "database_save" -> [operation |-> "insert"]
      [] t = "file_export" -> [format |-> "json"]

getNodeInputs(t) == IF Category(t) = "trigger" THEN <<>> ELSE <<"input">>

\* getNodeOutputs with no port for a switch, whose outputs depend on its cases
getNodeOutputsSwitchDynamic(t) ==
    IF t = "condition" THEN <<"true", "false">>
    ELSE IF t = "switch" THEN <<>>
    ELSE <<"output">>

getNodeOutputs(t) ==
    IF t = "condition" THEN <<"true", "false">>
    ELSE IF t = "switch" THEN <<"output">>
    ELSE <<"output">>

\* the node type object the palette of workflow-editor-main.js hands to
\* addNodeFromPalette, and the port lists that editor computes from it
NodeType(t) == [name |-> t, category |-> Category(t)]

MainGetNodeInputs(nodeType) ==
    IF nodeType.category = "trigger" THEN <<>> ELSE <<"input">>

MainGetNodeOutputs(nodeType) ==
    IF nodeType.name = "condition" THEN <<"true", "false">>
    ELSE IF nodeType.name = "switch" THEN <<"output">>
    ELSE <<"output">>

InSeq(x, s) == \E i \in DOMAIN s : s[i] = x

(***************************************************************************)
(* JS `a || b` on optional values, by the type of the value.               *)
(***************************************************************************)
OrNum(opt, d) == IF opt = Null \/ opt[1] = 0 THEN d ELSE opt[1]

OrStr(opt, d) == IF opt = Null \/ opt[1] = "" THEN d ELSE opt[1]

OrBool(opt, d) == IF opt = Null \/ opt[1] = FALSE THEN d ELSE opt[1]

\* an object is always truthy: only a missing one is replaced
OrObj(opt, d) == IF opt = Null THEN d ELSE opt[1]

(***************************************************************************)
(* Serialized workflows offered to the editor (options.workflowData and    *)
(* imported files, after `workflowData.definition || workflowData`).       *)
(***************************************************************************)
Pos(x, y) == [x |-> x, y |-> y]

NodeData(id, type, name, pos, config, description, coe, timeout) ==
    [id |-> id, type |-> type, name |-> name, position |-> pos, config |-> config,
     description |-> description, continue_on_error |-> coe, timeout |-> timeout]

ConnData(id, source, sourceHandle, target, targetHandle) ==
    [id |-> id, source |-> source, sourceHandle |-> sourceHandle,
     target |-> target, targetHandle |-> targetHandle]

IdNode1 == <<"n", "o", "d", "e", "_", "1">>
IdNode2 == <<"n", "o", "d", "e", "_", "2">>
IdNode02 == <<"n", "o", "d", "e", "_", "0", "2">>
IdStart == <<"s", "t", "a", "r", "t">>
IdGhost == <<"g", "h", "o", "s", "t">>

\* the constructor's default: { nodes: [], connections: [] }
EmptyWorkflow == [nodes |-> <<<<>>>>, connections |-> <<<<>>>>]

\* a workflow as the editor itself saves it
WorkflowA ==
    [nodes |-> << <<
        NodeData(IdNode1, "webhook_trigger", "Webhook", Pos(0, 0),
                 <<[method |-> "POST"]>>, <<"">>, <<FALSE>>, <<30>>),
        NodeData(IdNode2, "http_request", "Fetch", Pos(100, 0),
                 <<[method |-> "GET", timeout |-> 30]>>, <<"call">>, <<TRUE>>, <<45>>)
     >> >>,
     connections |-> << <<
        ConnData(<<"c_a">>, IdNode1, <<"output">>, IdNode2, <<"input">>)
     >> >>]

\* a hand-written file: an id with a leading zero, missing properties, a
\* self-loop whose missing handles default to 'output' and 'input', and a
\* connection from a node that is not in the file
WorkflowB ==
    [nodes |-> << <<
        NodeData(IdNode02, "condition", "Check", Pos(40, 40),
                 Null, Null, Null, <<0>>)
     >> >>,
     connections |-> << <<
        ConnData(<<"c_self">>, IdNode02, Null, IdNode02, Null),
        ConnData(<<"c_ghost">>, IdGhost, <<"output">>, IdNode02, <<"input">>)
     >> >>]

\* a hand-written file whose first node has no id property
WorkflowD ==
    [nodes |-> << <<
        NodeData(Undefined, "http_request", "Orphan", Pos(20, 60),
                 Null, Null, Null, Null),
        NodeData(IdNode1, "delay", "After", Pos(60, 60),
                 Null, Null, Null, Null)
     >> >>,
     connections |-> <<<<>>>>]

\* a file whose first node has an id without a number and whose second node
\* has a type the registry does not know
WorkflowC ==
    [nodes |-> << <<
        NodeData(IdStart, "manual_trigger", "Start", Pos(20, 20),
                 Null, Null, Null, Null),
        NodeData(IdNode1, "custom_step", "Custom", Pos(60, 20),
                 Null, Null, Null, Null)
     >> >>,
     connections |-> << <<
        ConnData(<<"c_c">>, IdStart, <<"output">>, IdNode1, <<"input">>)
     >> >>]

\* a saved workflow whose two nodes lie far apart
WorkflowWide ==
    [nodes |-> << <<
        NodeData(IdNode1, "manual_trigger", "Start", Pos(0, 0),
                 <<<<>>>>, <<"">>, <<FALSE>>, <<30>>),
        NodeData(IdNode2, "file_export", "Export", Pos(2700, 200),
                 <<[format |-> "json"]>>, <<"">>, <<FALSE>>, <<30>>)
     >> >>,
     connections |-> << <<
        ConnData(<<"c_w">>, IdNode1, <<"output">>, IdNode2, <<"input">>)
     >> >>]

InitialWorkflows == {EmptyWorkflow, WorkflowA}

\* the workflows the viewport is exercised on
ViewWorkflows == {EmptyWorkflow, WorkflowA, WorkflowWide}

ImportFiles == {WorkflowA, WorkflowB, WorkflowC, WorkflowD}

(***************************************************************************)
(* loadWorkflow: the synchronous node loop.                                *)
(***************************************************************************)
\* the node object built from nodeData
LoadedNode(nd) ==
    [id |-> nd.id, type |-> nd.type, name |-> nd.name, position |-> nd.position,
     config |-> OrObj(nd.config, <<>>),
     description |-> <<OrStr(nd.description, "")>>,
     continue_on_error |-> <<OrBool(nd.continue_on_error, FALSE)>>,
     timeout |-> <<OrNum(nd.timeout, DefaultTimeout)>>,
     inputs |-> getNodeInputs(nd.type),
     outputs |-> getNodeOutputs(nd.type)]

\* loadWorkflow without the update of the counter
CounterAfterLoadUnchanged(id, counter) == counter

\* the counter after loading a node with this id
CounterAfterLoad(id, counter) ==
    IF GreaterThan(NumericId(id), counter) THEN NumericId(id).val ELSE counter

RECURSIVE LoadNodes(_, _)
\* forEach over workflowData.nodes from the state st = [nodes, counter, threw];
\* getNodeInputs(undefined) throws for a type the registry does not know, which
\* ends the loop before the node is stored; node.id.split throws for an id
\* that is not a string, which ends the loop after the node was stored
LoadNodes(list, st) ==
    IF list = <<>> THEN st
    ELSE LET nd == Head(list) IN
         IF nd.type \notin NodeTypeNames
         THEN [st EXCEPT !.threw = TRUE]
         ELSE IF ~IsString(nd.id)
         THEN [nodes |-> MapSet(st.nodes, LoadedNode(nd)),
               counter |-> st.counter,
               threw |-> TRUE]
         ELSE LoadNodes(Tail(list),
                        [nodes |-> MapSet(st.nodes, LoadedNode(nd)),
                         counter |-> CounterAfterLoad(nd.id, st.counter),
                         threw |-> FALSE])

\* loadWorkflow() up to and including setTimeout: [nodes, counter, threw, timer]
loadWorkflow(w, ns, counter) ==
    IF w.nodes = Null
    THEN [nodes |-> ns, counter |-> counter, threw |-> FALSE, timer |-> FALSE]
    ELSE LET r == LoadNodes(w.nodes[1], [nodes |-> ns, counter |-> counter, threw |-> FALSE])
         IN [nodes |-> r.nodes, counter |-> r.counter, threw |-> r.threw,
             timer |-> ~r.threw]

\* the connection object built from connectionData
LoadedConnection(cd) ==
    [id |-> cd.id, source |-> cd.source,
     sourceHandle |-> OrStr(cd.sourceHandle, "output"),
     target |-> cd.target,
     targetHandle |-> OrStr(cd.targetHandle, "input")]

RECURSIVE LoadConnections(_, _)
\* forEach over workflowData.connections
LoadConnections(list, cs) ==
    IF list = <<>> THEN cs
    ELSE LoadConnections(Tail(list), MapSet(cs, LoadedConnection(Head(list))))

\* the body of the setTimeout callback of loadWorkflow
loadWorkflowTimer(w, cs) ==
    IF w.connections = Null THEN cs ELSE LoadConnections(w.connections[1], cs)

(***************************************************************************)
(* getWorkflowData                                                         *)
(***************************************************************************)
\* one entry of workflowData.nodes
SnapshotNode(n) ==
    NodeData(n.id, n.type, n.name, n.position, <<n.config>>,
             <<OrStr(n.description, "")>>,
             <<OrBool(n.continue_on_error, FALSE)>>,
             <<OrNum(n.timeout, DefaultTimeout)>>)

SnapshotConnection(c) ==
    ConnData(c.id, c.source, <<c.sourceHandle>>, c.target, <<c.targetHandle>>)

getWorkflowData(ns, cs) ==
    [nodes |-> <<[i \in DOMAIN ns |-> SnapshotNode(ns[i])]>>,
     connections |-> <<[i \in DOMAIN cs |-> SnapshotConnection(cs[i])]>>]

(***************************************************************************)
(* The state after the constructor and init(): the store loaded from       *)
(* options.workflowData, with the connection timer outstanding.            *)
(***************************************************************************)
Op(name, id, n, ok) == [op |-> name, id |-> id, n |-> n, ok |-> ok, target |-> <<>>]

\* the record of a pointer event, with the element it landed on
OpOn(name, id, n, ok, target) == [Op(name, id, n, ok) EXCEPT !.target = target]

\* the operations of the API of which one call is followed at a time:
\* testWorkflow and deployWorkflow
RequestKinds == {"test", "deploy"}

\* the two saveWorkflow: of the monolithic and of the modular editor
SaveKinds == {"save", "mainSave"}

\* the id the server gave the workflow, as a string of digits
SavedWorkflowId == <<"7">>

\* the id the server gives a workflow that a POST creates
CreatedWorkflowId == <<"8">>

\* options.workflowId || null: the page of a workflow that was never saved has
\* no workflow data and no id, the page of a stored workflow has both
OpenedWorkflowId(w) == IF w = EmptyWorkflow THEN Null ELSE SavedWorkflowId

InitWith(workflows) ==
    \E w \in workflows :
        LET r == loadWorkflow(w, <<>>, 0) IN
        /\ nodes = r.nodes
        /\ connections = <<>>
        /\ nodeCounter = r.counter
        /\ selectedNode = Null
        /\ selectedConnection = Null
        /\ isDragging = FALSE
        /\ isPanning = FALSE
        /\ isConnecting = FALSE
        /\ connectionStart = Null
        /\ clipboard = Null
        /\ canvasOffset = Pos(Rat(0), Rat(0))
        /\ zoomLevel = Rat(1)
        /\ zoomCount = 0
        /\ tempLine = Null
        /\ lastMousePos = Pos(0, 0)
        /\ moveCount = 0
        /\ workflowData = w
        /\ isDirty = FALSE
        /\ pendingLoads = IF r.timer THEN 1 ELSE 0
        /\ importCount = 0
        /\ clock = 0
        /\ usedIds = MapKeys(r.nodes)
        /\ dragOrigin = Null
        /\ editCount = 0
        /\ workflowId = OpenedWorkflowId(w)
        /\ requests = [k \in RequestKinds |-> "idle"]
        /\ isLoading = FALSE
        /\ inFlight = <<>>
        /\ savedGraph = getWorkflowData(r.nodes, loadWorkflowTimer(w, <<>>))
        /\ awaitingCreate = FALSE
        /\ pollCount = 0
        /\ pollPhase = "idle"
        /\ pollRequests = 0
        /\ logsPhase = "idle"
        /\ logsLoaded = 0
        /\ lastOp = Op("init", Null, 0, TRUE)

Init == InitWith(InitialWorkflows)

(***************************************************************************)
(* Inputs of the event handlers.                                           *)
(***************************************************************************)
\* node types dragged from the palette
DropTypes == {"webhook_trigger", "condition"}

\* the node type dropped in the sessions that restore workflows
RestoreDropTypes == {"http_request"}

\* pointer positions of a drop, relative to the canvas rectangle
DropPoints == {Pos(27, 33)}

Other == Op("other", Null, 0, TRUE)

(***************************************************************************)
(* Arithmetic of onCanvasDrop.                                             *)
(***************************************************************************)
\* onCanvasDrop with Math.floor in the place of Math.round
SnapDropFloor(p, offset, zoom) ==
    LET q == RDiv(RDiv(RSub(Rat(p), offset), zoom), Rat(gridSize)) IN
    (q.num \div q.den) * gridSize

\* Math.round(a / b) for b > 0: the nearest integer, halves rounded up
\* Math.round(((p - offset) / zoomLevel) / gridSize) * gridSize
SnapDrop(p, offset, zoom) ==
    RRound(RDiv(RDiv(RSub(Rat(p), offset), zoom), Rat(gridSize))) * gridSize

(***************************************************************************)
(* createNode, reached from onCanvasDrop.                                  *)
(***************************************************************************)
\* the id read before the increment: `node_${this.nodeCounter++}`
NextNodeIdPostIncrement(counter) == NodeIdOf(counter)

\* `node_${++this.nodeCounter}`
NextNodeId(counter) == NodeIdOf(counter + 1)

NewNode(id, t, position) ==
    [id |-> id, type |-> t, name |-> DisplayName(t), position |-> position,
     config |-> getDefaultConfig(t),
     description |-> Null, continue_on_error |-> Null, timeout |-> Null,
     inputs |-> getNodeInputs(t), outputs |-> getNodeOutputs(t)]

createNode(t, position) ==
    LET nodeId == NextNodeId(nodeCounter) IN
    /\ nodeCounter < MaxCounter
    /\ nodeCounter' = nodeCounter + 1
    /\ nodes' = MapSet(nodes, NewNode(nodeId, t, position))
    /\ selectedNode' = nodeId              \* selectNode(nodeId)
    /\ selectedConnection' = Null
    /\ isDirty' = TRUE                     \* markDirty()
    /\ usedIds' = usedIds \cup {nodeId}
    /\ lastOp' = Op("createNode", nodeId, 0, TRUE)
    /\ UNCHANGED <<connections, isConnecting, connectionStart, tempLine, clipboard, clock, viewVars,
                   loadVars, dragVars,
                   dragOrigin, editCount, serverVars, pollVars>>

onCanvasDrop(t, p) ==
    /\ t \in NodeTypeNames                 \* if (!nodeType) return
    /\ createNode(t, Pos(SnapDrop(p.x, canvasOffset.x, zoomLevel),
                         SnapDrop(p.y, canvasOffset.y, zoomLevel)))

(***************************************************************************)
(* Clipboard: copyNode, duplicateNode, pasteNode.                          *)
(***************************************************************************)
\* the copy made by duplicateNode / pasteNode without the offset of 50
CopiedNodeInPlace(src, id, suffix) ==
    [src EXCEPT !.id = id, !.name = src.name \o suffix]

\* the copy made by duplicateNode / pasteNode from a JSON deep copy of src
CopiedNode(src, id, suffix) ==
    [src EXCEPT !.id = id,
                !.position = Pos(src.position.x + PasteOffset, src.position.y + PasteOffset),
                !.name = src.name \o suffix]

copyNode(nodeId) ==
    /\ MapHas(nodes, nodeId)               \* if (node)
    /\ clipboard' = <<MapGet(nodes, nodeId)>>
    /\ lastOp' = Op("copyNode", nodeId, 0, TRUE)
    /\ UNCHANGED <<nodes, connections, nodeCounter, selectedNode, selectedConnection,
                   isConnecting, connectionStart, tempLine, isDirty, clock, usedIds, viewVars,
                   loadVars, dragVars,
                   dragOrigin, editCount, serverVars, pollVars>>

\* the part of duplicateNode / pasteNode after the copy is made
AddCopy(name, src, suffix) ==
    LET nodeId == NextNodeId(nodeCounter) IN
    /\ nodeCounter < MaxCounter
    /\ nodeCounter' = nodeCounter + 1
    /\ nodes' = MapSet(nodes, CopiedNode(src, nodeId, suffix))
    /\ selectedNode' = nodeId
    /\ selectedConnection' = Null
    /\ isDirty' = TRUE
    /\ usedIds' = usedIds \cup {nodeId}
    /\ lastOp' = OpOn(name, nodeId, 0, TRUE, src.id)
    /\ UNCHANGED <<connections, isConnecting, connectionStart, tempLine, clipboard, clock, viewVars,
                   loadVars, dragVars,
                   dragOrigin, editCount, serverVars, pollVars>>

duplicateNode(nodeId) ==
    /\ MapHas(nodes, nodeId)               \* if (!node) return
    /\ AddCopy("duplicateNode", MapGet(nodes, nodeId), " (Copy)")

\* showNotification('Nothing to paste', 'warning'); return
NothingToPaste ==
    /\ lastOp' = Op("nothingToPaste", Null, 0, FALSE)
    /\ UNCHANGED <<nodes, connections, nodeCounter, selectedNode, selectedConnection,
                   isConnecting, connectionStart, tempLine, clipboard, isDirty, clock,
                   usedIds, viewVars, loadVars, dragVars, dragOrigin, editCount,
                   serverVars, pollVars>>

\* pasteNode of a clipboard that holds the node object itself, not a copy of it
pasteNodeOfLiveNode ==
    IF clipboard = Null THEN NothingToPaste
    ELSE IF MapHas(nodes, clipboard[1].id)
         THEN AddCopy("pasteNode", MapGet(nodes, clipboard[1].id), " (Pasted)")
         ELSE AddCopy("pasteNode", clipboard[1], " (Pasted)")

pasteNode ==
    IF clipboard = Null                    \* if (!this.clipboard)
    THEN NothingToPaste
    ELSE AddCopy("pasteNode", clipboard[1], " (Pasted)")

(***************************************************************************)
(* The properties form: showNodeProperties, generatePropertiesForm,        *)
(* updateNodeConfig.                                                       *)
(***************************************************************************)
FieldDef(name, type) == [name |-> name, type |-> type]

\* config_schema.fields of the node type, name and type of each field
SchemaFields(t) ==
    CASE t = "webhook_trigger" ->
           <<FieldDef("method", "select"), FieldDef("path", "text")>>
      [] t = "schedule_trigger" ->
           <<FieldDef("cron", "text"), FieldDef("timezone", "select")>>
      [] t = "manual_trigger" -> <<>>
      [] t = "http_request" ->
           <<FieldDef("method", "select"), FieldDef("url", "text"),
             FieldDef("headers", "textarea"), FieldDef("body", "textarea"),
             FieldDef("timeout", "number")>>
      [] t = "database_query" ->
           <<FieldDef("query_type", "select"), FieldDef("table_name", "text"),
             FieldDef("conditions", "text"), FieldDef("fields", "text"),
             FieldDef("limit", "number")>>
      [] t = "data_transform" ->
           <<FieldDef("transform_type", "select"), FieldDef("field_mappings", "textarea")>>
      [] t = "json_parser" ->
           <<FieldDef("operation", "select"), FieldDef("json_field", "text"),
             FieldDef("fields", "textarea")>>
      [] t = "condition" ->
           <<FieldDef("field", "text"), FieldDef("operator", "select"),
             FieldDef("value", "text"), FieldDef("logic_operator", "select")>>
      [] t = "switch" ->
           <<FieldDef("switch_field", "text"), FieldDef("cases", "textarea")>>
      [] t = "email_send" ->
           <<FieldDef("to", "text"), FieldDef("subject", "text"),
             FieldDef("body", "textarea"), FieldDef("from_email", "text")>>
      [] t = "slack_notification" ->
           <<FieldDef("webhook_url", "text"), FieldDef("message", "textarea"),
             FieldDef("channel", "text"), FieldDef("username", "text")>>
      [] t = "delay" ->
           <<FieldDef("delay_seconds", "number"), FieldDef("delay_type", "select"),
             FieldDef("min_delay", "number"), FieldDef("max_delay", "number")>>
      [] t = "database_save" ->
           <<FieldDef("table_name", "text"), FieldDef("operation", "select"),
             FieldDef("where_conditions", "textarea"), FieldDef("unique_columns", "text")>>
      [] t = "file_export" ->
           <<FieldDef("file_path", "text"), FieldDef("format", "select")>>

\* the four inputs generatePropertiesForm renders for every node
GeneralFields ==
    <<FieldDef("name", "text"), FieldDef("description", "textarea"),
      FieldDef("continue_on_error", "checkbox"), FieldDef("timeout", "number")>>

\* an element of the form as updateNodeConfig reads it: dataset.field, type, the
\* string value (a sequence of characters) and the checked flag
Field(def, value, checked) ==
    [name |-> def.name, type |-> def.type, value |-> value, checked |-> checked]

\* what the user leaves in an element: a text, a number, or nothing
TypedValues(type) ==
    IF type = "number" THEN {<<>>, <<"4", "5">>} ELSE {<<"o", "n">>}

Range(seq) == {seq[i] : i \in DOMAIN seq}

\* the elements of the form rendered for a node of type t, after the user typed
FormFields(t) ==
    UNION {{Field(def, v, c) :
                v \in TypedValues(def.type),
                c \in IF def.type = "checkbox" THEN BOOLEAN ELSE {FALSE}} :
           def \in Range(GeneralFields) \cup Range(SchemaFields(t))}

\* an element with a data-field that no schema knows
UnknownField == Field(FieldDef("extra", "text"), <<"o", "n">>, FALSE)

RECURSIVE Text(_)
\* the JS string of a sequence of characters
Text(chars) == IF chars = <<>> THEN "" ELSE Head(chars) \o Text(Tail(chars))

\* Number(value) of the string a number input holds
Number(chars) == DigitPrefix(chars, 0)

\* the value updateNodeConfig stores for the element, as an optional value:
\* Null for the null of an empty number input
FieldValue(field) ==
    IF field.type = "checkbox" THEN <<field.checked>>
    ELSE IF field.type = "number"
         THEN IF field.value = <<>> THEN Null ELSE <<Number(field.value)>>
    ELSE <<Text(field.value)>>

\* the JS value of an optional value, inside an object that holds plain values
Plain(value) == IF value = Null THEN Null ELSE value[1]

TopLevelFields == {"name", "description", "continue_on_error", "timeout"}

\* node.config[fieldName] = value, on a config that may be the empty object
ConfigSet(config, fieldName, value) ==
    [f \in (DOMAIN config) \cup {fieldName} |->
        IF f = fieldName THEN value ELSE config[f]]

\* the if / else if chain of updateNodeConfig on the node object
StoreField(node, field) ==
    LET value == FieldValue(field) IN
    IF field.name = "name" THEN [node EXCEPT !.name = Plain(value)]
    ELSE IF field.name = "description" THEN [node EXCEPT !.description = value]
    ELSE IF field.name = "continue_on_error"
         THEN [node EXCEPT !.continue_on_error = value]
    ELSE IF field.name = "timeout" THEN [node EXCEPT !.timeout = value]
    ELSE [node EXCEPT !.config = ConfigSet(node.config, field.name, Plain(value))]

updateNodeConfig(nodeId, field) ==
    /\ editCount < MaxEdits
    /\ editCount' = editCount + 1
    /\ IF MapHas(nodes, nodeId)            \* if (!node) return
       THEN /\ nodes' = MapSet(nodes, StoreField(MapGet(nodes, nodeId), field))
            /\ isDirty' = TRUE             \* markDirty()
       ELSE UNCHANGED <<nodes, isDirty>>
    /\ lastOp' = OpOn("updateNodeConfig", nodeId, 0, MapHas(nodes, nodeId), field)
    /\ UNCHANGED <<connections, nodeCounter, selectedNode, selectedConnection, isConnecting,
                   connectionStart, tempLine, clipboard, clock, usedIds, viewVars,
                   loadVars, dragVars, dragOrigin, serverVars, pollVars>>

(***************************************************************************)
(* deleteConnection, deleteNode, clearCanvas.                              *)
(***************************************************************************)
\* deleteNode collecting only the connections that leave nodeId
ConnectionsToRemoveSourceOnly(cs, nodeId) ==
    {cs[i].id : i \in {j \in DOMAIN cs : cs[j].source = nodeId}}

\* connectionsToRemove of deleteNode: ids of the connections touching nodeId
ConnectionsToRemove(cs, nodeId) ==
    {cs[i].id : i \in {j \in DOMAIN cs : cs[j].source = nodeId \/ cs[j].target = nodeId}}

RECURSIVE DeleteEach(_, _)
\* connectionsToRemove.forEach(id => this.deleteConnection(id)), on the Map
DeleteEach(cs, ids) ==
    IF ids = {} THEN cs
    ELSE LET id == CHOOSE x \in ids : TRUE
         IN DeleteEach(MapDelete(cs, id), ids \ {id})

\* deleteConnection without the test of this.selectedConnection
deleteConnectionKeepsSelection(connectionId) ==
    /\ connections' = MapDelete(connections, connectionId)
    /\ UNCHANGED <<selectedNode, selectedConnection>>
    /\ isDirty' = TRUE
    /\ lastOp' = Op("deleteConnection", connectionId, 0, MapHas(connections, connectionId))
    /\ UNCHANGED <<nodes, nodeCounter, isConnecting, connectionStart, tempLine, clipboard, clock,
                   usedIds, viewVars, loadVars, dragVars,
                   dragOrigin, editCount, serverVars, pollVars>>

deleteConnection(connectionId) ==
    /\ connections' = MapDelete(connections, connectionId)
    /\ IF selectedConnection = connectionId
       THEN selectedNode' = Null /\ selectedConnection' = Null    \* deselectAll()
       ELSE UNCHANGED <<selectedNode, selectedConnection>>
    /\ isDirty' = TRUE
    /\ lastOp' = Op("deleteConnection", connectionId, 0, MapHas(connections, connectionId))
    /\ UNCHANGED <<nodes, nodeCounter, isConnecting, connectionStart, tempLine, clipboard, clock,
                   usedIds, viewVars, loadVars, dragVars,
                   dragOrigin, editCount, serverVars, pollVars>>

deleteNode(nodeId) ==
    LET toRemove == ConnectionsToRemove(connections, nodeId) IN
    /\ connections' = DeleteEach(connections, toRemove)
    /\ nodes' = MapDelete(nodes, nodeId)
    /\ selectedNode' = Null                \* deselectAll()
    /\ selectedConnection' = Null
    /\ isDirty' = TRUE
    /\ lastOp' = Op("deleteNode", nodeId, Cardinality(toRemove), MapHas(nodes, nodeId))
    /\ UNCHANGED <<nodeCounter, isConnecting, connectionStart, tempLine, clipboard, clock, usedIds,
                   viewVars, loadVars, dragVars,
                   dragOrigin, editCount, serverVars, pollVars>>

\* clearCanvas that also starts the node counter again
clearCanvasResetsCounter(confirmed) ==
    /\ IF confirmed
       THEN /\ nodes' = <<>>
            /\ connections' = <<>>
            /\ selectedNode' = Null
            /\ selectedConnection' = Null
            /\ isDirty' = TRUE
            /\ tempLine' = Null
            /\ nodeCounter' = 0
       ELSE UNCHANGED <<nodes, connections, selectedNode, selectedConnection, isDirty,
                        tempLine, nodeCounter>>
    /\ lastOp' = Op("clearCanvas", Null, 0, confirmed)
    /\ UNCHANGED <<isConnecting, connectionStart, clipboard, clock, usedIds,
                   viewVars, loadVars, dragVars,
                   dragOrigin, editCount, serverVars, pollVars>>

\* clearCanvas() with the answer given to its confirm() dialog
clearCanvas(confirmed) ==
    /\ IF confirmed
       THEN /\ nodes' = <<>>
            /\ connections' = <<>>
            /\ selectedNode' = Null
            /\ selectedConnection' = Null
            /\ isDirty' = TRUE
            /\ tempLine' = Null             \* connectionsLayer.innerHTML is rewritten
       ELSE UNCHANGED <<nodes, connections, selectedNode, selectedConnection, isDirty,
                        tempLine>>
    /\ lastOp' = Op("clearCanvas", Null, 0, confirmed)
    /\ UNCHANGED <<nodeCounter, isConnecting, connectionStart, clipboard, clock, usedIds,
                   viewVars, loadVars, dragVars,
                   dragOrigin, editCount, serverVars, pollVars>>

(***************************************************************************)
(* Selection.                                                              *)
(***************************************************************************)
\* selectNode(nodeId) / selectConnection(id) / deselectAll() on the two fields
\* (a selectedNode of undefined is falsy like null, and is kept as Null)
SelectOnly(nodeId, connectionId) ==
    /\ selectedNode' = IF IsString(nodeId) THEN nodeId ELSE Null
    /\ selectedConnection' = connectionId

onNodeClick(nodeId) ==
    /\ MapHas(nodes, nodeId)               \* the listener lives on the node's element
    /\ SelectOnly(nodeId, Null)
    /\ lastOp' = Other
    /\ UNCHANGED <<nodes, connections, nodeCounter, isConnecting, connectionStart, tempLine,
                   clipboard, isDirty, clock, usedIds, viewVars, loadVars, dragVars,
                   dragOrigin, editCount, serverVars, pollVars>>

\* e: the pointer position (clientX, clientY)
onNodeMouseDown(nodeId, e) ==
    /\ MapHas(nodes, nodeId)
    /\ IF selectedNode = Null \/ selectedNode # nodeId
       THEN SelectOnly(nodeId, Null)
       ELSE UNCHANGED <<selectedNode, selectedConnection>>
    /\ isDragging' = TRUE
    /\ lastMousePos' = e
    /\ dragOrigin' = <<[id |-> nodeId, position |-> MapGet(nodes, nodeId).position,
                        pointer |-> e]>>
    /\ lastOp' = Op("onNodeMouseDown", nodeId, 0, TRUE)
    /\ UNCHANGED <<nodes, connections, nodeCounter, isPanning, isConnecting,
                   connectionStart, tempLine, clipboard, isDirty, clock, usedIds,
                   moveCount, viewVars, loadVars,
                   editCount, serverVars, pollVars>>

onConnectionClick(connectionId) ==
    /\ MapHas(connections, connectionId)   \* the listener lives on the rendered path
    /\ SelectOnly(Null, connectionId)
    /\ lastOp' = Other
    /\ UNCHANGED <<nodes, connections, nodeCounter, isConnecting, connectionStart, tempLine,
                   clipboard, isDirty, clock, usedIds, viewVars, loadVars, dragVars,
                   dragOrigin, editCount, serverVars, pollVars>>

\* mousedown on the empty canvas or the grid
onCanvasMouseDown(e) ==
    /\ SelectOnly(Null, Null)              \* deselectAll()
    /\ isPanning' = TRUE
    /\ lastMousePos' = e
    /\ dragOrigin' = Null                  \* another gesture starts
    /\ lastOp' = Op("onCanvasMouseDown", Null, 0, TRUE)
    /\ UNCHANGED <<nodes, connections, nodeCounter, isDragging, isConnecting,
                   connectionStart, tempLine, clipboard, isDirty, clock, usedIds,
                   moveCount, viewVars, loadVars,
                   editCount, serverVars, pollVars>>

(***************************************************************************)
(* The connection-drawing gesture.                                         *)
(***************************************************************************)
\* the handles rendered for a node: <<kind, nodeId, handleName>>
HandlesOf(n) ==
    {<<"input", n.id, n.inputs[i]>> : i \in DOMAIN n.inputs}
        \cup {<<"output", n.id, n.outputs[i]>> : i \in DOMAIN n.outputs}

Handles == UNION {HandlesOf(nodes[i]) : i \in DOMAIN nodes}

\* where a mouseup on the canvas can land
MouseUpTargets ==
    {<<"canvas">>} \cup {<<"node", id>> : id \in MapKeys(nodes)} \cup Handles

\* createTempConnection appends the path element unless one is there
startConnection(sourceNodeId, sourceHandle) ==
    /\ isConnecting' = TRUE
    /\ connectionStart' = <<[nodeId |-> sourceNodeId, handle |-> sourceHandle]>>
    /\ tempLine' = IF tempLine = Null THEN <<Null>> ELSE tempLine

\* onHandleMouseDown without the test of the handle type
onHandleMouseDownAnyHandle(h) ==
    /\ h \in Handles
    /\ startConnection(h[2], h[3])
    /\ lastOp' = OpOn("onHandleMouseDown", h[2], 0, h[1] = "output", h)
    /\ UNCHANGED <<nodes, connections, nodeCounter, selectedNode, selectedConnection,
                   clipboard, isDirty, clock, usedIds, viewVars, loadVars, dragVars,
                   dragOrigin, editCount, serverVars, pollVars>>

onHandleMouseDown(h) ==
    /\ h \in Handles
    /\ IF h[1] = "output"
       THEN startConnection(h[2], h[3])
       ELSE UNCHANGED <<isConnecting, connectionStart, tempLine>>
    /\ lastOp' = OpOn("onHandleMouseDown", h[2], 0, h[1] = "output", h)
    /\ UNCHANGED <<nodes, connections, nodeCounter, selectedNode, selectedConnection,
                   clipboard, isDirty, clock, usedIds, viewVars, loadVars, dragVars,
                   dragOrigin, editCount, serverVars, pollVars>>

\* `connection_${Date.now()}_${random}`: the clock value stands for the pair
\* of the time stamp and the random suffix
ConnectionId(t) == <<"connection", t>>

NewConnection(id, sourceNodeId, sourceHandle, targetNodeId, targetHandle) ==
    [id |-> id, source |-> sourceNodeId, sourceHandle |-> sourceHandle,
     target |-> targetNodeId, targetHandle |-> targetHandle]

\* addConnection that stores nothing when the store holds a connection
\* between the same two handles
addConnectionDeduplicates(cs, id, sourceNodeId, sourceHandle, targetNodeId, targetHandle) ==
    IF \E i \in DOMAIN cs :
           /\ cs[i].source = sourceNodeId /\ cs[i].sourceHandle = sourceHandle
           /\ cs[i].target = targetNodeId /\ cs[i].targetHandle = targetHandle
    THEN cs
    ELSE MapSet(cs, NewConnection(id, sourceNodeId, sourceHandle, targetNodeId, targetHandle))

\* addConnection on the Map
addConnection(cs, id, sourceNodeId, sourceHandle, targetNodeId, targetHandle) ==
    MapSet(cs, NewConnection(id, sourceNodeId, sourceHandle, targetNodeId, targetHandle))

\* a call of the method addConnection: store, render, markDirty
addConnectionCall(sourceNodeId, sourceHandle, targetNodeId, targetHandle) ==
    /\ clock < MaxCalls
    /\ clock' = clock + 1
    /\ connections' = addConnection(connections, ConnectionId(clock + 1),
                                    sourceNodeId, sourceHandle, targetNodeId, targetHandle)
    /\ isDirty' = TRUE
    /\ lastOp' = OpOn("addConnection", ConnectionId(clock + 1), 0, TRUE,
                      <<sourceNodeId, sourceHandle, targetNodeId, targetHandle>>)
    /\ UNCHANGED <<nodes, nodeCounter, selectedNode, selectedConnection, isConnecting,
                   connectionStart, tempLine, clipboard, usedIds, viewVars, loadVars,
                   dragVars,
                   dragOrigin, editCount, serverVars, pollVars>>

\* the test of finishConnection without the comparison with the source node
FinishAddsOnSameNode(target, start) ==
    /\ target[1] = "input"
    /\ start # Null

\* the test of finishConnection that decides whether addConnection is called
FinishAdds(target, start) ==
    /\ target[1] = "input"
    /\ start # Null
    /\ target[2] # start[1].nodeId

\* onCanvasMouseUp that clears connectionStart only after adding a connection
onCanvasMouseUpKeepsStart(target) ==
    /\ target \in MouseUpTargets
    /\ isPanning' = FALSE
    /\ isDragging' = FALSE
    /\ IF isConnecting /\ FinishAdds(target, connectionStart)
       THEN /\ clock < MaxClock
            /\ clock' = clock + 1
            /\ connections' = addConnection(connections, ConnectionId(clock + 1),
                                            connectionStart[1].nodeId,
                                            connectionStart[1].handle,
                                            target[2], target[3])
            /\ lastOp' = OpOn("addConnection", ConnectionId(clock + 1), 0, TRUE, target)
       ELSE /\ UNCHANGED <<clock, connections>>
            /\ lastOp' = OpOn("onCanvasMouseUp", Null, 0, isConnecting, target)
    /\ isDirty' = (isDirty \/ isDragging \/ (isConnecting /\ FinishAdds(target, connectionStart)))
    /\ isConnecting' = FALSE
    /\ connectionStart' = IF isConnecting /\ FinishAdds(target, connectionStart)
                        THEN Null ELSE connectionStart
    /\ tempLine' = IF isConnecting THEN Null ELSE tempLine     \* tempLine.remove()
    /\ dragOrigin' = Null
    /\ UNCHANGED <<nodes, nodeCounter, selectedNode, selectedConnection, clipboard,
                   lastMousePos, moveCount, usedIds, viewVars, loadVars,
                   editCount, serverVars, pollVars>>

onCanvasMouseUp(target) ==
    /\ target \in MouseUpTargets
    /\ isPanning' = FALSE
    /\ isDragging' = FALSE
    /\ IF isConnecting /\ FinishAdds(target, connectionStart)
       THEN /\ clock < MaxClock
            /\ clock' = clock + 1
            /\ connections' = addConnection(connections, ConnectionId(clock + 1),
                                            connectionStart[1].nodeId,
                                            connectionStart[1].handle,
                                            target[2], target[3])
            /\ lastOp' = OpOn("addConnection", ConnectionId(clock + 1), 0, TRUE, target)
       ELSE /\ UNCHANGED <<clock, connections>>
            /\ lastOp' = OpOn("onCanvasMouseUp", Null, 0, isConnecting, target)
    /\ isDirty' = (isDirty \/ isDragging \/ (isConnecting /\ FinishAdds(target, connectionStart)))
    /\ isConnecting' = FALSE
    /\ connectionStart' = IF isConnecting THEN Null ELSE connectionStart
    /\ tempLine' = IF isConnecting THEN Null ELSE tempLine     \* tempLine.remove()
    /\ dragOrigin' = Null
    /\ UNCHANGED <<nodes, nodeCounter, selectedNode, selectedConnection, clipboard,
                   lastMousePos, moveCount, usedIds, viewVars, loadVars,
                   editCount, serverVars, pollVars>>

(***************************************************************************)
(* Pointer moves: panning, dragging the selected node, the preview line.   *)
(***************************************************************************)
\* pointer positions of mousedown and mousemove events, relative to the canvas
MousePoints == {Pos(0, 0), Pos(30, 8)}

\* node.position after a move by (dx, dy) screen pixels: the delta divided by
\* the zoom level is added, then each coordinate is rounded to the grid
DraggedPosition(position, dx, dy, zoom) ==
    Pos(RRound(RDiv(RAdd(Rat(position.x), RDiv(Rat(dx), zoom)), Rat(gridSize))) * gridSize,
        RRound(RDiv(RAdd(Rat(position.y), RDiv(Rat(dy), zoom)), Rat(gridSize))) * gridSize)

\* updateTempConnection: the 'd' attribute follows the pointer
updateTempConnection(e) ==
    IF tempLine = Null \/ connectionStart = Null THEN tempLine ELSE <<e>>

\* onCanvasMouseMove that keeps the preview line in the connection Map
onCanvasMouseMoveStoresPreview(e) ==
    LET afterPan == IF isPanning THEN e ELSE lastMousePos
        drags == isDragging /\ selectedNode # Null
        moves == drags /\ MapHas(nodes, selectedNode)
    IN
    /\ moveCount < MaxMoves
    /\ moveCount' = moveCount + 1
    /\ canvasOffset' =
          IF isPanning
          THEN Pos(RAdd(canvasOffset.x, Rat(e.x - lastMousePos.x)),
                   RAdd(canvasOffset.y, Rat(e.y - lastMousePos.y)))
          ELSE canvasOffset
    /\ nodes' =
          IF moves
          THEN LET node == MapGet(nodes, selectedNode) IN
               MapSet(nodes, [node EXCEPT !.position =
                   DraggedPosition(node.position, e.x - afterPan.x, e.y - afterPan.y,
                                   zoomLevel)])
          ELSE nodes
    /\ lastMousePos' = IF isPanning \/ drags THEN e ELSE lastMousePos
    /\ tempLine' = IF isConnecting THEN updateTempConnection(e) ELSE tempLine
    /\ lastOp' = Op("onCanvasMouseMove", Null, 0, isConnecting)
    /\ connections' =
          IF isConnecting /\ connectionStart # Null
          THEN MapSet(connections,
                      NewConnection(<<"temp-connection">>, connectionStart[1].nodeId,
                                    connectionStart[1].handle, Null, Null))
          ELSE connections
    /\ UNCHANGED <<nodeCounter, selectedNode, selectedConnection,
                   isDragging, isPanning, isConnecting, connectionStart, clipboard,
                   zoomLevel, zoomCount, isDirty, clock, usedIds, loadVars,
                   dragOrigin, editCount, serverVars, pollVars>>

onCanvasMouseMove(e) ==
    LET afterPan == IF isPanning THEN e ELSE lastMousePos
        drags == isDragging /\ selectedNode # Null
        moves == drags /\ MapHas(nodes, selectedNode)
    IN
    /\ moveCount < MaxMoves
    /\ moveCount' = moveCount + 1
    /\ canvasOffset' =
          IF isPanning
          THEN Pos(RAdd(canvasOffset.x, Rat(e.x - lastMousePos.x)),
                   RAdd(canvasOffset.y, Rat(e.y - lastMousePos.y)))
          ELSE canvasOffset
    /\ nodes' =
          IF moves
          THEN LET node == MapGet(nodes, selectedNode) IN
               MapSet(nodes, [node EXCEPT !.position =
                   DraggedPosition(node.position, e.x - afterPan.x, e.y - afterPan.y,
                                   zoomLevel)])
          ELSE nodes
    /\ lastMousePos' = IF isPanning \/ drags THEN e ELSE lastMousePos
    /\ tempLine' = IF isConnecting THEN updateTempConnection(e) ELSE tempLine
    /\ lastOp' = Op("onCanvasMouseMove", Null, 0, isConnecting)
    /\ UNCHANGED <<connections, nodeCounter, selectedNode, selectedConnection,
                   isDragging, isPanning, isConnecting, connectionStart, clipboard,
                   zoomLevel, zoomCount, isDirty, clock, usedIds, loadVars,
                   dragOrigin, editCount, serverVars, pollVars>>

(***************************************************************************)
(* The viewport: wheel zoom, zoom buttons, fit to screen.                  *)
(***************************************************************************)
MinZoom == Frac(1, 10)       \* Math.max(0.1, ...)
MaxZoom == Rat(3)            \* Math.min(3, ...)
WheelOut == Frac(9, 10)      \* scaleFactor for deltaY > 0
WheelIn == Frac(11, 10)      \* scaleFactor otherwise
ButtonStep == Frac(6, 5)     \* zoomLevel * 1.2, zoomLevel / 1.2

\* pointer positions of wheel events, relative to the canvas
WheelPoints == {Pos(100, 50)}

\* getBoundingClientRect() of the canvas; each is wider and higher than the
\* 100 pixels fitToScreen subtracts
Viewports == {[width |-> 1100, height |-> 700], [width |-> 400, height |-> 300],
              [width |-> 300, height |-> 300]}

\* zoomAt with the offset scaled by the factor asked for, not by the change
\* of the zoom level that the limits allowed
zoomAtUnclampedChange(view, p, scaleFactor) ==
    LET newZoom == RMax(MinZoom, RMin(MaxZoom, RMul(view.zoom, scaleFactor)))
    IN [zoom |-> newZoom,
        offset |-> Pos(RSub(Rat(p.x), RMul(RSub(Rat(p.x), view.offset.x), scaleFactor)),
                       RSub(Rat(p.y), RMul(RSub(Rat(p.y), view.offset.y), scaleFactor)))]

\* the zoom and pan computation of onCanvasWheel for a scale factor
zoomAt(view, p, scaleFactor) ==
    LET newZoom == RMax(MinZoom, RMin(MaxZoom, RMul(view.zoom, scaleFactor)))
        scaleChange == RDiv(newZoom, view.zoom)
    IN [zoom |-> newZoom,
        offset |-> Pos(RSub(Rat(p.x), RMul(RSub(Rat(p.x), view.offset.x), scaleChange)),
                       RSub(Rat(p.y), RMul(RSub(Rat(p.y), view.offset.y), scaleChange)))]

View == [zoom |-> zoomLevel, offset |-> canvasOffset]

onCanvasWheel(p, deltaYPositive) ==
    LET v == zoomAt(View, p, IF deltaYPositive THEN WheelOut ELSE WheelIn) IN
    /\ zoomCount < MaxZoomCount
    /\ zoomCount' = zoomCount + 1
    /\ zoomLevel' = v.zoom
    /\ canvasOffset' = v.offset
    /\ lastOp' = Op("onCanvasWheel", Null, 0, deltaYPositive)
    /\ UNCHANGED <<nodes, connections, nodeCounter, selectedNode, selectedConnection,
                   isConnecting, connectionStart, tempLine, clipboard, isDirty,
                   clock, usedIds, loadVars, dragVars,
                   dragOrigin, editCount, serverVars, pollVars>>

zoomIn ==
    /\ zoomCount < MaxZoomCount
    /\ zoomCount' = zoomCount + 1
    /\ zoomLevel' = RMin(RMul(zoomLevel, ButtonStep), MaxZoom)
    /\ lastOp' = Op("zoomIn", Null, 0, TRUE)
    /\ UNCHANGED <<nodes, connections, nodeCounter, selectedNode, selectedConnection,
                   isConnecting, connectionStart, tempLine, clipboard, isDirty,
                   canvasOffset, clock, usedIds, loadVars, dragVars,
                   dragOrigin, editCount, serverVars, pollVars>>

zoomOut ==
    /\ zoomCount < MaxZoomCount
    /\ zoomCount' = zoomCount + 1
    /\ zoomLevel' = RMax(RDiv(zoomLevel, ButtonStep), MinZoom)
    /\ lastOp' = Op("zoomOut", Null, 0, TRUE)
    /\ UNCHANGED <<nodes, connections, nodeCounter, selectedNode, selectedConnection,
                   isConnecting, connectionStart, tempLine, clipboard, isDirty,
                   canvasOffset, clock, usedIds, loadVars, dragVars,
                   dragOrigin, editCount, serverVars, pollVars>>

\* the bounding box of the nodes, each taken as 200 wide and 100 high
SetMin(S) == CHOOSE m \in S : \A x \in S : m <= x
SetMax(S) == CHOOSE m \in S : \A x \in S : x <= m

BoundingBox(ns) ==
    [minX |-> SetMin({ns[i].position.x : i \in DOMAIN ns}),
     minY |-> SetMin({ns[i].position.y : i \in DOMAIN ns}),
     maxX |-> SetMax({ns[i].position.x + NodeWidth : i \in DOMAIN ns}),
     maxY |-> SetMax({ns[i].position.y + NodeHeight : i \in DOMAIN ns})]

\* the zoom level and offset fitToScreen computes for a canvas of size rect
FitView(ns, rect) ==
    LET b == BoundingBox(ns)
        scaleX == Frac(rect.width - FitMargin, b.maxX - b.minX)
        scaleY == Frac(rect.height - FitMargin, b.maxY - b.minY)
        zoom == RMin(RMin(scaleX, scaleY), Rat(1))
        centerX == Frac(b.minX + b.maxX, 2)
        centerY == Frac(b.minY + b.maxY, 2)
    IN [zoom |-> zoom,
        offset |-> Pos(RSub(Frac(rect.width, 2), RMul(centerX, zoom)),
                       RSub(Frac(rect.height, 2), RMul(centerY, zoom)))]

fitToScreen(rect) ==
    /\ IF nodes = <<>>
       THEN UNCHANGED <<zoomLevel, canvasOffset>>
       ELSE /\ zoomLevel' = FitView(nodes, rect).zoom
            /\ canvasOffset' = FitView(nodes, rect).offset
    /\ lastOp' = Op("fitToScreen", Null, 0, nodes # <<>>)
    /\ UNCHANGED <<nodes, connections, nodeCounter, selectedNode, selectedConnection,
                   isConnecting, connectionStart, tempLine, clipboard, isDirty,
                   zoomCount, clock, usedIds, loadVars, dragVars,
                   dragOrigin, editCount, serverVars, pollVars>>

\* the offset centerCanvas computes for a canvas of size rect
CenterOffset(ns, rect, zoom) ==
    LET b == BoundingBox(ns)
        centerX == Frac(b.minX + b.maxX, 2)
        centerY == Frac(b.minY + b.maxY, 2)
    IN Pos(RSub(Frac(rect.width, 2), RMul(centerX, zoom)),
           RSub(Frac(rect.height, 2), RMul(centerY, zoom)))

centerCanvas(rect) ==
    /\ canvasOffset' = IF nodes = <<>> THEN canvasOffset
                       ELSE CenterOffset(nodes, rect, zoomLevel)
    /\ lastOp' = Op("centerCanvas", Null, 0, nodes # <<>>)
    /\ UNCHANGED <<nodes, connections, nodeCounter, selectedNode, selectedConnection,
                   isConnecting, connectionStart, tempLine, clipboard, isDirty,
                   zoomLevel, zoomCount, clock, usedIds, loadVars, dragVars,
                   dragOrigin, editCount, serverVars, pollVars>>

(***************************************************************************)
(* Keyboard shortcuts (setupKeyboardShortcuts).                            *)
(***************************************************************************)
keyDelete ==
    IF selectedNode # Null THEN deleteNode(selectedNode)
    ELSE /\ selectedConnection # Null
         /\ deleteConnection(selectedConnection)

keyEscape ==
    /\ SelectOnly(Null, Null)
    /\ lastOp' = Other
    /\ UNCHANGED <<nodes, connections, nodeCounter, isConnecting, connectionStart, tempLine,
                   clipboard, isDirty, clock, usedIds, viewVars, loadVars, dragVars,
                   dragOrigin, editCount, serverVars, pollVars>>

keyCopy ==
    /\ selectedNode # Null
    /\ copyNode(selectedNode)

keyPaste == pasteNode

(***************************************************************************)
(* importWorkflow (the FileReader onload callback) and the timer of        *)
(* loadWorkflow.                                                           *)
(***************************************************************************)
\* w: the parsed file; replace: the answer to 'This will replace the current
\* workflow. Continue?'; clear: the answer to the confirm() of clearCanvas
importWorkflow(w, replace, clear) ==
    LET cleared == replace /\ clear
        r == loadWorkflow(w, IF cleared THEN <<>> ELSE nodes, nodeCounter)
    IN
    /\ IF replace
       THEN /\ importCount < MaxImports
            /\ pendingLoads < MaxPending
            /\ importCount' = importCount + 1
            /\ nodes' = r.nodes
            /\ nodeCounter' = r.counter
            /\ connections' = IF clear THEN <<>> ELSE connections
            /\ selectedNode' = IF clear THEN Null ELSE selectedNode
            /\ selectedConnection' = IF clear THEN Null ELSE selectedConnection
            /\ workflowData' = w
            /\ pendingLoads' = IF r.timer THEN pendingLoads + 1 ELSE pendingLoads
            /\ isDirty' = (isDirty \/ clear \/ ~r.threw)
            /\ usedIds' = usedIds \cup MapKeys(r.nodes)
            /\ tempLine' = IF clear THEN Null ELSE tempLine
       ELSE UNCHANGED <<nodes, nodeCounter, connections, selectedNode,
                        selectedConnection, isDirty, usedIds, tempLine, loadVars>>
    /\ lastOp' = Op("importWorkflow", Null, Len(nodes), cleared /\ ~r.threw)
    /\ UNCHANGED <<isConnecting, connectionStart, clipboard, clock, viewVars, dragVars,
                   dragOrigin, editCount, serverVars, pollVars>>

\* the setTimeout callback of loadWorkflow runs
loadTimer ==
    /\ pendingLoads > 0
    /\ pendingLoads' = pendingLoads - 1
    /\ connections' = loadWorkflowTimer(workflowData, connections)
    /\ lastOp' = Op("loadTimer", Null, Len(connections), TRUE)
    /\ UNCHANGED <<nodes, nodeCounter, selectedNode, selectedConnection, isConnecting,
                   connectionStart, tempLine, clipboard, isDirty, clock, usedIds, workflowData,
                   importCount, viewVars, dragVars,
                   dragOrigin, editCount, serverVars, pollVars>>

(***************************************************************************)
(* The calls of the server: saveWorkflow, testWorkflow, deployWorkflow,    *)
(* duplicateWorkflow, and saveWorkflow of the modular editor.  A handler   *)
(* runs up to its next await in one step; the response of fetch and the    *)
(* result of response.json() arrive in steps of their own.                 *)
(***************************************************************************)
\* what the remote calls leave alone: the graph, the selection, the gestures
editorVars == <<nodes, connections, nodeCounter, selectedNode, selectedConnection,
                isConnecting, connectionStart, tempLine, clipboard, clock, usedIds,
                viewVars, loadVars, dragVars, dragOrigin, editCount>>

\* how a fetch ends: the promise rejects, or resolves with response.ok false or true
FetchOutcomes == {"reject", "notOk", "ok"}

\* the body of a save request: getWorkflowData() when saveWorkflow is called
Graph == getWorkflowData(nodes, connections)

\* the id of the workflow a response describes: the one of the URL for a PUT,
\* one the server creates for a POST
ResponseId(req) == IF req.method = "PUT" THEN req.id ELSE CreatedWorkflowId

\* how response.json() of a save ends: it rejects (Null), or resolves with the
\* stored workflow, whose status the server may leave out
SaveBodies(req) ==
    {Null, <<[id |-> ResponseId(req), status |-> <<"draft">>]>>,
           <<[id |-> ResponseId(req), status |-> Null]>>}

\* how response.json() of an execute call ends
TestBodies == {Null, <<[execution_id |-> <<"1">>]>>}

\* the sequence without its i-th entry
Without(seq, i) == SubSeq(seq, 1, i - 1) \o SubSeq(seq, i + 1, Len(seq))

\* isDirty after a handler that calls markClean() in its finally block
DirtyAfterCleanInFinally(dirty, saved) == FALSE

\* isDirty after the handler: markClean() runs in the branch of response.ok
DirtyAfter(dirty, saved) == IF saved THEN FALSE ELSE dirty

\* a finally block that leaves isLoading as it is
CaughtKeepsLoading(kind, outcome) ==
    /\ isLoading' = isLoading
    /\ isDirty' = DirtyAfter(isDirty, FALSE)
    /\ lastOp' = OpOn("failed", Null, 0, FALSE, <<kind, outcome>>)
    /\ UNCHANGED <<workflowId, savedGraph, awaitingCreate, pollVars, editorVars>>

\* the catch and finally blocks: the catch block logs and shows a notification,
\* the finally block hides the overlay (and resets isLoading in the modular
\* editor); nothing leaves the handler
Caught(kind, outcome) ==
    /\ isLoading' = IF kind = "mainSave" THEN FALSE ELSE isLoading
    /\ isDirty' = DirtyAfter(isDirty, FALSE)
    /\ lastOp' = OpOn("failed", Null, 0, FALSE, <<kind, outcome>>)
    /\ UNCHANGED <<workflowId, savedGraph, awaitingCreate, pollVars, editorVars>>

\* testWorkflow or deployWorkflow leaves its try block by a throw
Failed(kind, outcome) ==
    /\ requests' = [requests EXCEPT ![kind] = "idle"]
    /\ UNCHANGED inFlight
    /\ Caught(kind, outcome)

\* the i-th saveWorkflow in flight leaves its try block by a throw
FailedSave(i, outcome) ==
    /\ inFlight' = Without(inFlight, i)
    /\ UNCHANGED requests
    /\ Caught(inFlight[i].kind, outcome)

\* the synchronous part of testWorkflow and deployWorkflow up to `await fetch(...)`
Send(kind) ==
    /\ requests[kind] = "idle"             \* one call of a kind is followed
    /\ requests' = [requests EXCEPT ![kind] = "fetch"]
    /\ lastOp' = OpOn("send", Null, 0, TRUE, <<kind>>)
    /\ UNCHANGED <<workflowId, isDirty, inFlight, savedGraph, awaitingCreate,
                   pollVars, editorVars>>

\* the request of a saveWorkflow: url and method follow this.workflowId, the
\* body is the graph of this moment
SaveRequest(kind, silent) ==
    [kind |-> kind,
     method |-> IF workflowId = Null THEN "POST" ELSE "PUT",
     id |-> workflowId,
     body |-> Graph,
     phase |-> "fetch",
     silent |-> silent,
     afterDuplicate |-> awaitingCreate]

\* the synchronous part of saveWorkflow up to `await fetch(...)`
SendSave(kind, silent) ==
    /\ Len(inFlight) < MaxInFlight
    /\ inFlight' = Append(inFlight, SaveRequest(kind, silent))
    /\ lastOp' = OpOn("sendSave", workflowId, Len(inFlight) + 1, TRUE,
                      <<kind, SaveRequest(kind, silent).method>>)
    /\ UNCHANGED <<workflowId, requests, isDirty, savedGraph, awaitingCreate,
                   pollVars, editorVars>>

\* showNotification('Please save the workflow first', 'warning'); return
NotSaved(kind) ==
    /\ lastOp' = OpOn("notSaved", Null, 0, FALSE, <<kind>>)
    /\ UNCHANGED <<serverVars, isDirty, pollVars, editorVars>>

\* saveWorkflow of the monolithic editor: nothing keeps a second call from
\* sending its request while the first awaits its response
saveWorkflow == SendSave("save", FALSE) /\ UNCHANGED isLoading

testWorkflow ==
    IF workflowId = Null THEN NotSaved("test")
    ELSE /\ pollPhase = "idle"             \* one execution is followed
         /\ Send("test")
         /\ UNCHANGED isLoading

deployWorkflow ==
    IF workflowId = Null THEN NotSaved("deploy")
    ELSE Send("deploy") /\ UNCHANGED isLoading

\* saveWorkflow of workflow-editor-main.js without `if (this.isLoading) return`
MainSaveWorkflowUnguarded(silent) ==
    /\ isLoading' = TRUE
    /\ SendSave("mainSave", silent)

\* saveWorkflow of workflow-editor-main.js
MainSaveWorkflow(silent) ==
    IF isLoading
    THEN /\ lastOp' = OpOn("ignored", Null, Len(inFlight), FALSE, <<"mainSave">>)
         /\ UNCHANGED <<serverVars, isDirty, pollVars, editorVars>>
    ELSE /\ isLoading' = TRUE
         /\ SendSave("mainSave", silent)

\* the callback of setInterval(..., 30000) of the modular editor
autoSaveTimer ==
    IF isDirty /\ ~isLoading
    THEN MainSaveWorkflow(TRUE)
    ELSE /\ lastOp' = OpOn("tick", Null, Len(inFlight), FALSE, <<"mainSave">>)
         /\ UNCHANGED <<serverVars, isDirty, pollVars, editorVars>>

\* duplicateWorkflow, of both editors
duplicateWorkflow ==
    IF workflowId = Null THEN NotSaved("duplicate")
    ELSE /\ workflowId' = Null
         /\ isDirty' = TRUE                \* markDirty()
         /\ awaitingCreate' = TRUE
         /\ lastOp' = Op("duplicateWorkflow", Null, 0, TRUE)
         /\ UNCHANGED <<requests, isLoading, inFlight, savedGraph, pollVars, editorVars>>

\* the continuation of testWorkflow and deployWorkflow after `await fetch(...)`
fetchSettled(kind, outcome) ==
    /\ requests[kind] = "fetch"
    /\ IF outcome # "ok" THEN Failed(kind, outcome)   \* rejected, or throw new Error
       ELSE /\ requests' = [requests EXCEPT ![kind] =
                               IF kind = "deploy" THEN "idle" ELSE "json"]
            /\ lastOp' = OpOn("fetchSettled", Null, 0, TRUE, <<kind, outcome>>)
            /\ UNCHANGED <<workflowId, isLoading, isDirty, inFlight, savedGraph,
                           awaitingCreate, pollVars, editorVars>>

\* the continuation of the i-th saveWorkflow in flight after `await fetch(...)`
saveFetchSettled(i, outcome) ==
    /\ i \in DOMAIN inFlight
    /\ inFlight[i].phase = "fetch"
    /\ IF outcome # "ok" THEN FailedSave(i, outcome)
       ELSE /\ inFlight' = [inFlight EXCEPT ![i].phase = "json"]
            /\ lastOp' = OpOn("fetchSettled", Null, i, TRUE, <<inFlight[i].kind, outcome>>)
            /\ UNCHANGED <<workflowId, requests, isLoading, isDirty, savedGraph,
                           awaitingCreate, pollVars, editorVars>>

\* workflowId after `if (!this.workflowId) this.workflowId = result.id`
AssignedId(id, req, result) == IF id = Null THEN result.id ELSE id

\* the continuation of the i-th saveWorkflow in flight after
\* `await response.json()`: updateWorkflowStatus(result.status) throws on a
\* status that is not a string, after the id and the clean flag were set
saveJsonSettled(i, body) ==
    /\ i \in DOMAIN inFlight
    /\ inFlight[i].phase = "json"
    /\ body \in SaveBodies(inFlight[i])
    /\ IF body = Null THEN FailedSave(i, "json")
       ELSE LET req == inFlight[i] IN
            /\ workflowId' = AssignedId(workflowId, req, body[1])
            /\ isDirty' = DirtyAfter(isDirty, TRUE)
            /\ inFlight' = Without(inFlight, i)
            /\ isLoading' = IF req.kind = "mainSave" THEN FALSE ELSE isLoading
            /\ savedGraph' = req.body
            /\ awaitingCreate' = IF req.method = "POST" /\ req.afterDuplicate
                                 THEN FALSE ELSE awaitingCreate
            /\ lastOp' = OpOn("saved", body[1].id, i, body[1].status # Null,
                              <<req.kind, req.method>>)
            /\ UNCHANGED <<requests, pollVars, editorVars>>

\* the first request of poll(), sent when pollExecutionStatus is called
pollExecutionStatus ==
    /\ pollCount' = 0
    /\ pollPhase' = "fetch"
    /\ pollRequests' = 1
    /\ UNCHANGED <<logsPhase, logsLoaded>>

\* the continuation after `await response.json()` of testWorkflow
testJsonSettled(body) ==
    /\ requests["test"] = "json"
    /\ IF body = Null THEN Failed("test", "json")
       ELSE /\ pollExecutionStatus
            /\ requests' = [requests EXCEPT !["test"] = "idle"]
            /\ lastOp' = OpOn("tested", body[1].execution_id, 0, TRUE, <<"test">>)
            /\ UNCHANGED <<workflowId, isLoading, isDirty, inFlight, savedGraph,
                           awaitingCreate, editorVars>>

(***************************************************************************)
(* pollExecutionStatus: the closure poll() and its timer, and              *)
(* loadExecutionLogs.                                                      *)
(***************************************************************************)
\* execution.status of a response
PollStatuses == {"running", "queued", "completed", "failed"}

\* the continuation of poll() after `await fetch(...)`: a rejected fetch is
\* logged, a response that is not ok is dropped; neither polls again
pollFetchSettled(outcome) ==
    /\ pollPhase = "fetch"
    /\ pollPhase' = IF outcome = "ok" THEN "json" ELSE "stopped"
    /\ lastOp' = OpOn("pollFetchSettled", Null, pollRequests, outcome = "ok", <<outcome>>)
    /\ UNCHANGED <<pollCount, pollRequests, logsPhase, logsLoaded, serverVars, isDirty,
                   editorVars>>

\* poll() calls loadExecutionLogs also when the attempts are used up
LoadsLogsWhenExhausted(status, count) ==
    status # Null /\ (status[1] \in {"running", "queued"} => count >= maxPolls)

\* poll() calls loadExecutionLogs: the else branch of the test of the status
LoadsLogs(status, count) ==
    status # Null /\ status[1] \notin {"running", "queued"}

\* the continuation of poll() after `await response.json()`
pollJsonSettled(status) ==
    /\ pollPhase = "json"
    /\ IF status = Null THEN /\ pollPhase' = "stopped"
                             /\ UNCHANGED pollCount
       ELSE IF status[1] \in {"running", "queued"}
       THEN IF pollCount < maxPolls
            THEN /\ pollCount' = pollCount + 1
                 /\ pollPhase' = "timer"    \* setTimeout(poll, 5000)
            ELSE /\ pollPhase' = "stopped"
                 /\ UNCHANGED pollCount
       ELSE /\ pollPhase' = "logs"          \* this.loadExecutionLogs(executionId)
            /\ UNCHANGED pollCount
    /\ IF LoadsLogs(status, pollCount)
       THEN /\ logsPhase' = "fetch"         \* loadExecutionLogs up to its await
            /\ logsLoaded' = logsLoaded + 1
       ELSE UNCHANGED <<logsPhase, logsLoaded>>
    /\ lastOp' = OpOn("pollJsonSettled", Null, pollRequests, status # Null, status)
    /\ UNCHANGED <<pollRequests, serverVars, isDirty, editorVars>>

\* the timer of setTimeout(poll, 5000) fires: poll() sends the next request
pollTimer ==
    /\ pollPhase = "timer"
    /\ pollPhase' = "fetch"
    /\ pollRequests' = pollRequests + 1
    /\ lastOp' = Op("pollTimer", Null, pollRequests + 1, TRUE)
    /\ UNCHANGED <<pollCount, logsPhase, logsLoaded, serverVars, isDirty, editorVars>>

\* the continuation of loadExecutionLogs after `await fetch(...)`
logsFetchSettled(outcome) ==
    /\ logsPhase = "fetch"
    /\ logsPhase' = IF outcome = "ok" THEN "json" ELSE "done"
    /\ lastOp' = OpOn("logsFetchSettled", Null, pollRequests, outcome = "ok", <<outcome>>)
    /\ UNCHANGED <<pollCount, pollPhase, pollRequests, logsLoaded, serverVars, isDirty,
                   editorVars>>

\* the continuation of loadExecutionLogs after `await response.json()`:
\* displayExecutionLogs writes the log panel only
logsJsonSettled(read) ==
    /\ logsPhase = "json"
    /\ logsPhase' = "done"
    /\ lastOp' = OpOn("logsJsonSettled", Null, pollRequests, read, <<>>)
    /\ UNCHANGED <<pollCount, pollPhase, pollRequests, logsLoaded, serverVars, isDirty,
                   editorVars>>

(***************************************************************************)
(* The specifications.                                                     *)
(*                                                                         *)
(* Spec: an editing session on the loaded workflow: nodes are dropped and  *)
(* deleted, connections are drawn, selected and deleted, the canvas is     *)
(* cleared, and the timer of the initial loadWorkflow runs at any moment.  *)
(*                                                                         *)
(* SpecRestore: a session that also imports files and uses the clipboard;  *)
(* its connections are those of the loaded workflows.                      *)
(***************************************************************************)
Next ==
    \/ \E t \in DropTypes, p \in DropPoints : onCanvasDrop(t, p)
    \/ \E id \in MapKeys(connections) : deleteConnection(id)
    \/ \E c \in BOOLEAN : clearCanvas(c)
    \/ \E id \in MapKeys(nodes) : onNodeClick(id)
    \/ \E id \in MapKeys(connections) : onConnectionClick(id)
    \/ \E h \in Handles : onHandleMouseDown(h)
    \/ \E target \in MouseUpTargets : onCanvasMouseUp(target)
    \/ keyDelete
    \/ keyEscape
    \/ loadTimer

Spec == Init /\ [][Next]_vars

NextRestore ==
    \/ \E t \in RestoreDropTypes, p \in DropPoints : onCanvasDrop(t, p)
    \/ \E id \in MapKeys(nodes) : duplicateNode(id)
    \/ \E c \in BOOLEAN : clearCanvas(c)
    \/ \E id \in MapKeys(nodes) : onNodeClick(id)
    \/ keyDelete
    \/ keyCopy
    \/ keyPaste
    \/ \E w \in ImportFiles, replace \in BOOLEAN, clear \in BOOLEAN :
           importWorkflow(w, replace, clear)
    \/ loadTimer

SpecRestore == Init /\ [][NextRestore]_vars

\* SpecView: the viewport of a loaded workflow: wheel, zoom buttons, fit to
\* screen and panning with the pointer.
InitView == InitWith(ViewWorkflows)

NextView ==
    \/ \E p \in WheelPoints, d \in BOOLEAN : onCanvasWheel(p, d)
    \/ zoomIn
    \/ zoomOut
    \/ \E rect \in Viewports : fitToScreen(rect)
    \/ \E e \in MousePoints : onCanvasMouseDown(e)
    \/ \E e \in MousePoints : onCanvasMouseMove(e)
    \/ onCanvasMouseUp(<<"canvas">>)

SpecView == InitView /\ [][NextView]_vars

\* SpecGesture: drawing connections with the pointer on a loaded workflow,
\* next to dragging, panning and clearing the canvas.
InitGesture == InitWith({WorkflowA})

NextGesture ==
    \/ \E id \in MapKeys(nodes), e \in MousePoints : onNodeMouseDown(id, e)
    \/ \E e \in MousePoints : onCanvasMouseDown(e)
    \/ \E h \in Handles : onHandleMouseDown(h)
    \/ \E e \in MousePoints : onCanvasMouseMove(e)
    \/ \E target \in MouseUpTargets : onCanvasMouseUp(target)
    \/ \E c \in BOOLEAN : clearCanvas(c)
    \/ loadTimer

SpecGesture == InitGesture /\ [][NextGesture]_vars

\* SpecConnect: the connection methods called directly, with any pair of
\* stored nodes as the ends and with ids that are and are not in the store,
\* while nodes and connections are selected, deleted with the key and with
\* the context menu, and the canvas is cleared.
DeleteIds == {<<"c_a">>} \cup {ConnectionId(t) : t \in 1..MaxCalls}

\* node ids passed to deleteNode: two of the loaded workflow, one of no node
DeleteNodeIds == {IdNode1, IdNode2, IdGhost}

NextConnect ==
    \/ \E t \in RestoreDropTypes, p \in DropPoints : onCanvasDrop(t, p)
    \/ \E a \in MapKeys(nodes), b \in MapKeys(nodes) :
           addConnectionCall(a, <<"output">>, b, <<"input">>)
    \/ \E id \in DeleteIds : deleteConnection(id)
    \/ \E id \in DeleteNodeIds : deleteNode(id)
    \/ \E id \in MapKeys(connections) : onConnectionClick(id)
    \/ \E id \in MapKeys(nodes) : onNodeClick(id)
    \/ \E c \in BOOLEAN : clearCanvas(c)
    \/ keyDelete
    \/ loadTimer

SpecConnect == Init /\ [][NextConnect]_vars

\* SpecPalette: every type of the catalog dropped on an empty canvas,
\* duplicated and deleted.
InitPalette == InitWith({EmptyWorkflow})

NextPalette ==
    \/ \E t \in NodeTypeNames, p \in DropPoints : onCanvasDrop(t, p)
    \/ \E id \in MapKeys(nodes) : duplicateNode(id)
    \/ \E id \in MapKeys(nodes) : onNodeClick(id)
    \/ keyDelete

SpecPalette == InitPalette /\ [][NextPalette]_vars

\* SpecDrop: palette items dropped on an empty canvas that is zoomed with the
\* buttons and panned with the pointer between the drops.
InitDrop == InitWith({EmptyWorkflow})

NextDrop ==
    \/ \E p \in DropPoints : onCanvasDrop("condition", p)
    \/ zoomIn
    \/ zoomOut
    \/ \E e \in MousePoints : onCanvasMouseDown(e)
    \/ \E e \in MousePoints : onCanvasMouseMove(e)
    \/ onCanvasMouseUp(<<"canvas">>)

SpecDrop == InitDrop /\ [][NextDrop]_vars

\* SpecProperties: the properties form of a stored workflow of one node, for
\* every node type of the catalog; the node is selected and its fields edited.
CatalogWorkflow(t) ==
    [nodes |-> << <<
        NodeData(IdNode1, t, DisplayName(t), Pos(0, 0),
                 <<getDefaultConfig(t)>>, <<"">>, <<FALSE>>, <<DefaultTimeout>>)
     >> >>,
     connections |-> << <<>> >>]

InitProperties == InitWith({CatalogWorkflow(t) : t \in NodeTypeNames})

\* the elements that carry listeners of updateNodeConfig: those of the form of
\* the selected node
NextProperties ==
    \/ \E id \in MapKeys(nodes) : onNodeClick(id)
    \/ /\ selectedNode # Null
       /\ MapHas(nodes, selectedNode)
       /\ \E field \in FormFields(MapGet(nodes, selectedNode).type) \cup {UnknownField} :
              updateNodeConfig(selectedNode, field)
    \/ keyEscape

SpecProperties == InitProperties /\ [][NextProperties]_vars

\* SpecEdit: editing a loaded workflow: nodes are duplicated, copied, pasted,
\* dragged with the pointer, edited in the properties form and deleted.
InitEdit == InitWith({WorkflowA})

\* the elements of the properties form that are edited in these sessions
EditFields == {Field(FieldDef("url", "text"), <<"o", "n">>, FALSE)}

NextEdit ==
    \/ \E id \in MapKeys(nodes) : duplicateNode(id)
    \/ keyCopy
    \/ keyPaste
    \/ \E id \in MapKeys(nodes) : onNodeMouseDown(id, Pos(0, 0))
    \/ onCanvasMouseMove(Pos(30, 8))
    \/ onCanvasMouseUp(<<"canvas">>)
    \/ /\ selectedNode # Null
       /\ MapHas(nodes, selectedNode)
       /\ \E field \in EditFields : updateNodeConfig(selectedNode, field)
    \/ keyDelete
    \/ loadTimer

SpecEdit == InitEdit /\ [][NextEdit]_vars

\* SpecRemote: saving, testing, deploying and duplicating a workflow while
\* nodes are dropped and deleted, with every outcome of every request; a save
\* is started when no other is in flight.
InitRemote == InitWith({EmptyWorkflow, WorkflowA})

NextRemote ==
    \/ inFlight = <<>> /\ saveWorkflow
    \/ testWorkflow
    \/ deployWorkflow
    \/ inFlight = <<>> /\ MainSaveWorkflow(FALSE)
    \/ duplicateWorkflow
    \/ \E kind \in RequestKinds, outcome \in FetchOutcomes : fetchSettled(kind, outcome)
    \/ \E i \in DOMAIN inFlight, outcome \in FetchOutcomes : saveFetchSettled(i, outcome)
    \/ \E i \in DOMAIN inFlight : \E body \in SaveBodies(inFlight[i]) : saveJsonSettled(i, body)
    \/ \E body \in TestBodies : testJsonSettled(body)
    \/ \E p \in DropPoints : onCanvasDrop("manual_trigger", p)
    \/ keyDelete

SpecRemote == InitRemote /\ [][NextRemote]_vars

\* SpecPoll: a test run of a stored workflow and the polling of its status,
\* with every outcome of every request.
InitPoll == InitWith({WorkflowA})

NextPoll ==
    \/ testWorkflow
    \/ \E outcome \in FetchOutcomes : fetchSettled("test", outcome)
    \/ \E body \in TestBodies : testJsonSettled(body)
    \/ \E outcome \in FetchOutcomes : pollFetchSettled(outcome)
    \/ \E status \in {Null} \cup {<<s>> : s \in PollStatuses} : pollJsonSettled(status)
    \/ pollTimer
    \/ \E outcome \in FetchOutcomes : logsFetchSettled(outcome)
    \/ \E read \in BOOLEAN : logsJsonSettled(read)

SpecPoll == InitPoll /\ [][NextPoll]_vars

\* SpecSave: the monolithic editor saves a new or a stored workflow, any
\* number of times before the responses arrive, while nodes are dropped and
\* deleted and the workflow is duplicated; the responses arrive in any order.
\* The first save comes after the timer of the initial load has run.
InitSave == InitWith({EmptyWorkflow, WorkflowA})

NextSave ==
    \/ pendingLoads = 0 /\ saveWorkflow
    \/ \E i \in DOMAIN inFlight, outcome \in FetchOutcomes : saveFetchSettled(i, outcome)
    \/ \E i \in DOMAIN inFlight : \E body \in SaveBodies(inFlight[i]) : saveJsonSettled(i, body)
    \/ duplicateWorkflow
    \/ \E p \in DropPoints : onCanvasDrop("manual_trigger", p)
    \/ keyDelete
    \/ loadTimer

SpecSave == InitSave /\ [][NextSave]_vars

\* SpecMain: the modular editor saves with the button or the shortcut and with
\* the auto-save timer, while nodes are dropped and deleted and the workflow
\* is duplicated; every request ends in every way.
InitMain == InitWith({EmptyWorkflow, WorkflowA})

NextMain ==
    \/ MainSaveWorkflow(FALSE)
    \/ autoSaveTimer
    \/ \E i \in DOMAIN inFlight, outcome \in FetchOutcomes : saveFetchSettled(i, outcome)
    \/ \E i \in DOMAIN inFlight : \E body \in SaveBodies(inFlight[i]) : saveJsonSettled(i, body)
    \/ duplicateWorkflow
    \/ \E p \in DropPoints : onCanvasDrop("manual_trigger", p)
    \/ keyDelete
    \/ loadTimer

SpecMain == InitMain /\ [][NextMain]_vars

\* SpecAutoSave: the modular editor with autoSave enabled, its saving left to
\* the timer.  setInterval keeps calling the callback, so the timer is weakly
\* fair; a request may fail in every way, but a request that is sent again and
\* again is answered with ok at some time, and with a readable body at some
\* time (strong fairness of the two successful continuations).  The edits are under no fairness.
fetchSucceeds == \E i \in DOMAIN inFlight : saveFetchSettled(i, "ok")

jsonSucceeds ==
    \E i \in DOMAIN inFlight :
        \E body \in SaveBodies(inFlight[i]) \ {Null} : saveJsonSettled(i, body)

NextAutoSave ==
    \/ autoSaveTimer
    \/ fetchSucceeds
    \/ jsonSucceeds
    \/ \E i \in DOMAIN inFlight, outcome \in FetchOutcomes \ {"ok"} : saveFetchSettled(i, outcome)
    \/ \E i \in DOMAIN inFlight : saveJsonSettled(i, Null)
    \/ duplicateWorkflow
    \/ \E p \in DropPoints : onCanvasDrop("manual_trigger", p)
    \/ keyDelete
    \/ loadTimer

SpecAutoSave ==
    /\ InitMain
    /\ [][NextAutoSave]_vars
    /\ WF_vars(autoSaveTimer)
    /\ SF_vars(fetchSucceeds)
    /\ SF_vars(jsonSucceeds)

\* SpecFrame: the viewport of a loaded workflow is zoomed, panned, fitted and
\* centred between the edits of its graph: nodes are dropped, dragged and
\* deleted, connections are selected and deleted.
InitFrame == InitWith({WorkflowA})

\* the size of the canvas in these sessions
FrameViewport == [width |-> 400, height |-> 300]

MaxFrameZooms == 2    \* wheel and zoom-button operations of these sessions

NextFrame ==
    \/ zoomCount < MaxFrameZooms /\ \E p \in WheelPoints : onCanvasWheel(p, TRUE)
    \/ zoomCount < MaxFrameZooms /\ zoomIn
    \/ zoomCount < MaxFrameZooms /\ zoomOut
    \/ fitToScreen(FrameViewport)
    \/ centerCanvas(FrameViewport)
    \/ onCanvasMouseDown(Pos(0, 0))
    \/ onCanvasMouseMove(Pos(30, 8))
    \/ onCanvasMouseUp(<<"canvas">>)
    \/ onNodeMouseDown(WorkflowA.nodes[1][1].id, Pos(0, 0))
    \/ keyDelete
    \/ loadTimer

SpecFrame == InitFrame /\ [][NextFrame]_vars

(***************************************************************************)
(* Vocabulary of the properties.                                           *)
(***************************************************************************)
Creations == {"createNode", "duplicateNode", "pasteNode"}

\* the connection touches the node
Touches(c, nodeId) == c.source = nodeId \/ c.target = nodeId

\* the entries of a Map that satisfy Keep, in order
Filter(m, Keep(_)) == SelectSeq(m, Keep)

\* the connections of cs' that are not in cs
Added(cs, csNext) == {csNext[i] : i \in {j \in DOMAIN csNext : ~MapHas(cs, csNext[j].id)}}

\* both ends of the connection are nodes of ns and its handles are their ports
WellFormed(c, ns) ==
    /\ MapHas(ns, c.source)
    /\ MapHas(ns, c.target)
    /\ InSeq(c.sourceHandle, MapGet(ns, c.source).outputs)
    /\ InSeq(c.targetHandle, MapGet(ns, c.target).inputs)

(***************************************************************************)
(* C1. deleteNode(n) on a node of the store removes n and every connection *)
(* whose source or target is n in one step; every other node and every     *)
(* connection that does not touch n stays, unchanged and in order.         *)
(***************************************************************************)
C1_DeleteNodeCascades ==
    [][(lastOp'.op = "deleteNode" /\ lastOp'.ok) =>
         LET n == lastOp'.id
             OtherNode(x) == x.id # n
             Untouched(c) == ~Touches(c, n)
         IN /\ MapHas(nodes, n)
            /\ ~MapHas(nodes', n)
            /\ \A i \in DOMAIN connections' : ~Touches(connections'[i], n)
            /\ nodes' = Filter(nodes, OtherNode)
            /\ connections' = Filter(connections, Untouched)]_vars

\* A->B and B->C existed, B was deleted: A and C remain with no connection
C1_Witness ==
    /\ lastOp.op = "deleteNode"
    /\ lastOp.ok
    /\ lastOp.n = 2
    /\ Len(nodes) = 2
    /\ connections = <<>>

(***************************************************************************)
(* C2. Every connection that addConnection puts into the store at the end  *)
(* of a drawing gesture has a source node and a target node that are in    *)
(* the store at that moment, whatever happened between pointer-down and    *)
(* pointer-up.                                                             *)
(***************************************************************************)
C2_DrawnConnectionEndsExist ==
    [][lastOp'.op = "addConnection" =>
         \A c \in Added(connections, connections') :
             MapHas(nodes', c.source) /\ MapHas(nodes', c.target)]_vars

(***************************************************************************)
(* C3. The ids of the nodes of the store are pairwise distinct, and each   *)
(* of createNode, duplicateNode and pasteNode adds exactly one node, whose *)
(* id is the id of no node already in the store, leaving the others as     *)
(* they were.                                                              *)
(***************************************************************************)
DistinctIds(ns) == \A i, j \in DOMAIN ns : i # j => ns[i].id # ns[j].id

C4_NoSelfLoop ==
    \A i \in DOMAIN connections : connections[i].source # connections[i].target

(***************************************************************************)
(* C5. addConnection changes the store only when both node ids are nodes   *)
(* of the store, the source handle is an output of the source node and the *)
(* target handle an input of the target node; it then adds one connection. *)
(***************************************************************************)
C5_AddConnectionValidates ==
    [][lastOp'.op = "addConnection" =>
         /\ Cardinality(Added(connections, connections')) <= 1
         /\ \A c \in Added(connections, connections') : WellFormed(c, nodes)]_vars

(***************************************************************************)
(* C6. In every state, also after a workflow was loaded or imported, the   *)
(* source handle of a connection is an output of its source node and its   *)
(* target handle is an input of its target node.                           *)
(***************************************************************************)
C6_HandlesArePorts ==
    \A i \in DOMAIN connections :
        LET c == connections[i] IN
        /\ MapHas(nodes, c.source) => InSeq(c.sourceHandle, MapGet(nodes, c.source).outputs)
        /\ MapHas(nodes, c.target) => InSeq(c.targetHandle, MapGet(nodes, c.target).inputs)

(***************************************************************************)
(* C7. An import that goes ahead replaces the store: afterwards the nodes  *)
(* are those that loading the file into an empty store gives, and no       *)
(* connection of the previous workflow remains.                            *)
(***************************************************************************)
C7_ImportReplacesStore ==
    [][(lastOp'.op = "importWorkflow" /\ importCount' = importCount + 1) =>
         /\ nodes' = loadWorkflow(workflowData', <<>>, nodeCounter).nodes
         /\ connections' = <<>>]_vars

(***************************************************************************)
(* C8. Round trip: the snapshot S of the store, loaded into a fresh editor *)
(* (node loop, then the timer that loads the connections), gives a store   *)
(* whose snapshot is S again.                                              *)
(***************************************************************************)
C8_RoundTrip ==
    LET S == getWorkflowData(nodes, connections)
        r == loadWorkflow(S, <<>>, 0)
        cs == IF r.timer THEN loadWorkflowTimer(S, <<>>) ELSE <<>>
    IN getWorkflowData(r.nodes, cs) = S

C11_ZoomWithinLimits ==
    RLeq(MinZoom, zoomLevel) /\ RLeq(zoomLevel, MaxZoom)

(***************************************************************************)
(* C12. A wheel zoom at screen point p keeps the world point under p:      *)
(* (p - canvasOffset) / zoomLevel is the same before and after the step,   *)
(* also when the new zoom level was clamped.                               *)
(***************************************************************************)
WorldPoint(p, offset, zoom) ==
    Pos(RDiv(RSub(Rat(p.x), offset.x), zoom), RDiv(RSub(Rat(p.y), offset.y), zoom))

\* the point of the wheel event that led from view to viewNext
WheelPointsOf(view, viewNext, deltaYPositive) ==
    {p \in WheelPoints :
        zoomAt(view, p, IF deltaYPositive THEN WheelOut ELSE WheelIn) = viewNext}

ZoomFactors == {Frac(1, 2), WheelOut, WheelIn, Rat(2)}

C13_ZoomAtInverse ==
    (RLeq(MinZoom, zoomLevel) /\ RLeq(zoomLevel, MaxZoom)) =>
        \A p \in WheelPoints, f \in ZoomFactors :
            zoomAt(zoomAt(View, p, f), p, RDiv(Rat(1), f)) = View

(***************************************************************************)
(* C14. A step enters the drawing state only by a mousedown on an output   *)
(* handle, and then connectionStart holds the node id and the name of that *)
(* handle; a mousedown on an input handle, on a node or on the canvas      *)
(* leaves isConnecting and connectionStart as they were.                   *)
(***************************************************************************)
PointerDowns == {"onHandleMouseDown", "onNodeMouseDown", "onCanvasMouseDown"}

C14_DrawingStartsAtOutputHandle ==
    [][/\ (lastOp'.op = "onHandleMouseDown" /\ lastOp'.target[1] = "output") =>
             /\ isConnecting'
             /\ connectionStart' = <<[nodeId |-> lastOp'.target[2],
                                      handle |-> lastOp'.target[3]]>>
       /\ (lastOp'.op \in PointerDowns
              /\ ~(lastOp'.op = "onHandleMouseDown" /\ lastOp'.target[1] = "output")) =>
             UNCHANGED <<isConnecting, connectionStart>>
       /\ (~isConnecting /\ isConnecting') =>
             (lastOp'.op = "onHandleMouseDown" /\ lastOp'.target[1] = "output")]_vars

\* drawing was started at the output handle of the second node
C14_Witness ==
    /\ isConnecting
    /\ lastOp.op = "onHandleMouseDown"
    /\ lastOp.ok
    /\ connectionStart # Null
    /\ connectionStart[1].nodeId = IdNode2

(***************************************************************************)
(* C15. Every mouseup on the canvas while drawing ends in the idle state:  *)
(* isConnecting false, connectionStart null and no preview line, whatever  *)
(* the pointer was over and whether or not a connection was added.         *)
(***************************************************************************)
PointerUps == {"onCanvasMouseUp", "addConnection"}

C15_MouseUpEndsDrawing ==
    [][(isConnecting /\ lastOp'.op \in PointerUps) =>
           /\ ~isConnecting'
           /\ connectionStart' = Null
           /\ tempLine' = Null]_vars

\* a drawing whose preview followed the pointer ended on a node body
C15_Witness ==
    /\ lastOp.op = "onCanvasMouseUp"
    /\ lastOp.ok
    /\ lastOp.target[1] = "node"
    /\ moveCount > 0
    /\ ~isConnecting

(***************************************************************************)
(* C16. A mouseup while drawing over an input handle of a node other than  *)
(* the source appends exactly one connection, from the recorded source     *)
(* node and handle to the node and handle under the pointer; a mouseup     *)
(* anywhere else leaves the connections as they were.                      *)
(***************************************************************************)
C16_MouseUpAddsOneConnection ==
    [][(isConnecting /\ connectionStart # Null /\ lastOp'.op \in PointerUps) =>
           LET t == lastOp'.target
               start == connectionStart[1]
           IN IF t[1] = "input" /\ t[2] # start.nodeId
              THEN /\ Len(connections') = Len(connections) + 1
                   /\ SubSeq(connections', 1, Len(connections)) = connections
                   /\ LET c == connections'[Len(connections')] IN
                          /\ ~MapHas(connections, c.id)
                          /\ c.source = start.nodeId
                          /\ c.sourceHandle = start.handle
                          /\ c.target = t[2]
                          /\ c.targetHandle = t[3]
              ELSE connections' = connections]_vars

\* a connection was drawn to the input handle that the loaded one ends at
C16_Witness ==
    /\ lastOp.op = "addConnection"
    /\ Len(connections) = 2
    /\ connections[2].target = connections[1].target
    /\ connections[2].targetHandle = connections[1].targetHandle

(***************************************************************************)
(* C17. The preview line is never stored: a mousemove while drawing leaves *)
(* the connections unchanged, and in every state the connections of        *)
(* getWorkflowData() are exactly the connections of the store, one for     *)
(* one.                                                                    *)
(***************************************************************************)
SameConnection(d, c) ==
    /\ d.id = c.id
    /\ d.source = c.source /\ d.sourceHandle = <<c.sourceHandle>>
    /\ d.target = c.target /\ d.targetHandle = <<c.targetHandle>>

C17_PreviewNotPersisted ==
    [][/\ lastOp'.op = "onCanvasMouseMove" => connections' = connections
       /\ LET data == getWorkflowData(nodes', connections').connections[1] IN
              /\ Len(data) = Len(connections')
              /\ \A i \in DOMAIN data : SameConnection(data[i], connections'[i])]_vars

\* the preview follows the pointer while the store holds a connection
C17_Witness ==
    /\ isConnecting
    /\ lastOp.op = "onCanvasMouseMove"
    /\ tempLine \in {<<e>> : e \in MousePoints}
    /\ connections # <<>>

(***************************************************************************)
(* C18. Every call of addConnection appends one connection under an id     *)
(* that no connection of the store has, whatever the store holds: a        *)
(* connection between the same two handles, other connections from the     *)
(* same output or into the same input. The ids of the store are pairwise   *)
(* distinct.                                                               *)
(***************************************************************************)
C18_DuplicateConnectionsAllowed ==
    [][/\ lastOp'.op = "addConnection" =>
             /\ Len(connections') = Len(connections) + 1
             /\ SubSeq(connections', 1, Len(connections)) = connections
             /\ LET c == connections'[Len(connections')] IN
                    /\ c.id = lastOp'.id
                    /\ ~MapHas(connections, c.id)
                    /\ <<c.source, c.sourceHandle, c.target, c.targetHandle>> = lastOp'.target
       /\ DistinctIds(connections')]_vars

\* two calls with the same four arguments left two connections in the store
C18_Witness ==
    /\ lastOp.op = "addConnection"
    /\ \E i, j \in DOMAIN connections :
           /\ connections[i].id = ConnectionId(1)
           /\ connections[j].id = ConnectionId(2)
           /\ connections[i].source = connections[j].source
           /\ connections[i].sourceHandle = connections[j].sourceHandle
           /\ connections[i].target = connections[j].target
           /\ connections[i].targetHandle = connections[j].targetHandle

C20_DeleteMissingConnectionFails ==
    [][(lastOp'.op = "deleteConnection" /\ ~lastOp'.ok) =>
           UNCHANGED <<nodes, connections, selectedNode, selectedConnection, isDirty>>]_vars

(***************************************************************************)
(* C21. deleteNode with an id that is not in the store changes neither the *)
(* nodes, the connections, the selection nor the dirty flag.               *)
(***************************************************************************)
C21_DeleteMissingNodeFails ==
    [][(lastOp'.op = "deleteNode" /\ ~lastOp'.ok) =>
           UNCHANGED <<nodes, connections, selectedNode, selectedConnection, isDirty>>]_vars

(***************************************************************************)
(* C30. In every state, also between the node load and the timer that      *)
(* loads the connections, both ends of every connection of the store are   *)
(* nodes of the store.                                                     *)
(***************************************************************************)
C30_NoDanglingConnection ==
    \A i \in DOMAIN connections :
        /\ MapHas(nodes, connections[i].source)
        /\ MapHas(nodes, connections[i].target)

(***************************************************************************)
(* C28. The grid point of a coordinate v is round(v / gridSize) * gridSize *)
(* on each axis by itself: with gridSize 20 the point (27, 33) goes to     *)
(* (20, 40).  Every node created by a drop is stored at the grid point     *)
(* nearest to the world point under the pointer, (p - canvasOffset) /      *)
(* zoomLevel, a half cell going to the higher grid line.                   *)
(***************************************************************************)
\* g is the multiple of gridSize with g - gridSize/2 <= v < g + gridSize/2
IsGridPointOf(g, v) ==
    /\ g % gridSize = 0
    /\ RLeq(Frac(2 * g - gridSize, 2), v)
    /\ RLess(v, Frac(2 * g + gridSize, 2))

C28_DropSnapsToGrid ==
    [][lastOp'.op = "createNode" =>
         /\ SnapDrop(27, Rat(0), Rat(1)) = 20
         /\ SnapDrop(33, Rat(0), Rat(1)) = 40
         /\ \E p \in DropPoints :
                LET w == WorldPoint(p, canvasOffset, zoomLevel)
                    node == MapGet(nodes', lastOp'.id)
                IN /\ IsGridPointOf(node.position.x, w.x)
                   /\ IsGridPointOf(node.position.y, w.y)]_vars

\* a node dropped on a zoomed and panned canvas, away from (20, 40)
C28_Witness ==
    /\ lastOp.op = "createNode"
    /\ zoomLevel # Rat(1)
    /\ canvasOffset # Pos(Rat(0), Rat(0))
    /\ MapGet(nodes, lastOp.id).position # Pos(20, 40)
    /\ \E i \in DOMAIN nodes : nodes[i].position = Pos(20, 40)

(***************************************************************************)
(* C27. An edit of a field of the configuration schema of the node's type, *)
(* for every node type of the catalog, and an edit of a field no schema    *)
(* knows, leaves the attributes name, description, continue_on_error and   *)
(* timeout of the node as they were and stores the value of the element    *)
(* in node.config under the field's name.                                  *)
(***************************************************************************)
SchemaFieldNames(t) == {SchemaFields(t)[i].name : i \in DOMAIN SchemaFields(t)}

C27_SchemaFieldsGoToConfig ==
    [][(lastOp'.op = "updateNodeConfig" /\ lastOp'.ok) =>
         LET field == lastOp'.target
             node == MapGet(nodes, lastOp'.id)
             after == MapGet(nodes', lastOp'.id)
         IN (field.name \in SchemaFieldNames(node.type) \/ field = UnknownField) =>
                /\ after.name = node.name
                /\ after.description = node.description
                /\ after.continue_on_error = node.continue_on_error
                /\ after.timeout = node.timeout
                /\ field.name \in DOMAIN after.config
                /\ after.config[field.name] = Plain(FieldValue(field))]_vars

(***************************************************************************)
(* C24. When a drag of a node ends (mousedown on the node, any number of   *)
(* mousemoves, mouseup), both coordinates of the dragged node are          *)
(* multiples of gridSize, wherever the node was before the drag.           *)
(***************************************************************************)
OnGrid(position) == position.x % gridSize = 0 /\ position.y % gridSize = 0

C24_DragEndsOnGrid ==
    [][(isDragging /\ ~isDragging' /\ dragOrigin # Null
            /\ MapHas(nodes', dragOrigin[1].id)) =>
         OnGrid(MapGet(nodes', dragOrigin[1].id).position)]_vars

(***************************************************************************)
(* C29. When a drag of a node ends, the node is at the grid point of its   *)
(* position at the mousedown plus the whole displacement of the pointer    *)
(* divided by the zoom level, however the displacement was split into      *)
(* mousemove events.                                                       *)
(***************************************************************************)
C29_DragEndDependsOnTotalOnly ==
    [][(isDragging /\ ~isDragging' /\ dragOrigin # Null
            /\ MapHas(nodes', dragOrigin[1].id)) =>
         LET origin == dragOrigin[1]
             total == Pos(lastMousePos.x - origin.pointer.x,
                          lastMousePos.y - origin.pointer.y)
         IN MapGet(nodes', origin.id).position =
                DraggedPosition(origin.position, total.x, total.y, zoomLevel)]_vars

(***************************************************************************)
(* C22. duplicateNode of a stored node n adds one node at the end of the   *)
(* store and changes no other: the new node has an id that was not in the  *)
(* store, the type, config and port lists of n, the position of n plus     *)
(* (50, 50) and the name of n followed by ' (Copy)'; the connections are   *)
(* as before.  A later pointer move or form edit changes no node but the   *)
(* one it is aimed at, so a change of the copy leaves n as it was.         *)
(***************************************************************************)
C22_DuplicateAddsOneCopy ==
    [][/\ lastOp'.op = "duplicateNode" =>
            /\ MapHas(nodes, lastOp'.target)
            /\ ~MapHas(nodes, lastOp'.id)
            /\ Len(nodes') = Len(nodes) + 1
            /\ \A i \in DOMAIN nodes : nodes'[i] = nodes[i]
            /\ connections' = connections
            /\ LET n == MapGet(nodes, lastOp'.target)
                   copy == nodes'[Len(nodes')]
               IN /\ copy.id = lastOp'.id
                  /\ copy.type = n.type
                  /\ copy.config = n.config
                  /\ copy.inputs = n.inputs
                  /\ copy.outputs = n.outputs
                  /\ copy.position = Pos(n.position.x + 50, n.position.y + 50)
                  /\ copy.name = n.name \o " (Copy)"
       /\ lastOp'.op = "updateNodeConfig" =>
            \A i \in DOMAIN nodes : nodes[i].id # lastOp'.id => nodes'[i] = nodes[i]
       /\ lastOp'.op = "onCanvasMouseMove" =>
            \A i \in DOMAIN nodes : nodes[i].id # selectedNode => nodes'[i] = nodes[i]]_vars

\* the copy of node_2, which has a connection, was dragged and is being edited
C22_Witness ==
    /\ lastOp.op = "updateNodeConfig"
    /\ lastOp.id = NodeIdOf(3)
    /\ MapHas(nodes, NodeIdOf(3))
    /\ MapHas(nodes, IdNode2)
    /\ MapGet(nodes, NodeIdOf(3)).name = "Fetch (Copy)"
    /\ MapGet(nodes, NodeIdOf(3)).position # Pos(150, 50)
    /\ "url" \in DOMAIN MapGet(nodes, NodeIdOf(3)).config
    /\ "url" \notin DOMAIN MapGet(nodes, IdNode2).config
    /\ MapGet(nodes, IdNode2).position = Pos(100, 0)
    /\ connections # <<>>

(***************************************************************************)
(* C23. The clipboard holds the node as it was when copyNode ran: only a   *)
(* copyNode step changes the clipboard, so no later edit, move or deletion *)
(* of the node does.  Every pasteNode step adds one node with a new id     *)
(* and the type, config and name (followed by ' (Pasted)') of the          *)
(* clipboard, and leaves the clipboard as it was.  pasteNode with an empty *)
(* clipboard adds no node and leaves nodes and connections as they were.   *)
(***************************************************************************)
C23_PasteUsesSnapshot ==
    [][/\ clipboard' # clipboard => lastOp'.op = "copyNode"
       /\ lastOp'.op = "copyNode" =>
            /\ MapHas(nodes, lastOp'.id)
            /\ clipboard' = <<MapGet(nodes, lastOp'.id)>>
            /\ nodes' = nodes
       /\ lastOp'.op = "pasteNode" =>
            /\ clipboard # Null
            /\ ~MapHas(nodes, lastOp'.id)
            /\ Len(nodes') = Len(nodes) + 1
            /\ \A i \in DOMAIN nodes : nodes'[i] = nodes[i]
            /\ LET pasted == nodes'[Len(nodes')] IN
               /\ pasted.id = lastOp'.id
               /\ pasted.type = clipboard[1].type
               /\ pasted.config = clipboard[1].config
               /\ pasted.name = clipboard[1].name \o " (Pasted)"
       /\ lastOp'.op = "nothingToPaste" =>
            /\ clipboard = Null
            /\ nodes' = nodes
            /\ connections' = connections
       /\ (clipboard = Null /\ lastOp'.op \notin {"createNode", "duplicateNode"}) =>
            Len(nodes') <= Len(nodes)]_vars

\* a paste after the copied node was edited in the form and dragged away: the
\* pasted node has the config and the position of the time of the copy
C23_Witness ==
    /\ lastOp.op = "pasteNode"
    /\ MapHas(nodes, lastOp.target)
    /\ MapHas(nodes, lastOp.id)
    /\ clipboard # Null
    /\ clipboard[1].id = lastOp.target
    /\ "url" \in DOMAIN MapGet(nodes, lastOp.target).config
    /\ "url" \notin DOMAIN MapGet(nodes, lastOp.id).config
    /\ MapGet(nodes, lastOp.target).position # clipboard[1].position

(***************************************************************************)
(* C25. For one execution the poll loop sends at most 60 status requests;  *)
(* once it has stopped it sends no request and stays stopped; a response   *)
(* with a status other than running or queued ends the polling at once.    *)
(***************************************************************************)
C25_PollingIsBounded ==
    [][/\ pollRequests' <= maxPolls
       /\ pollPhase \in {"stopped", "logs"} =>
              (pollRequests' = pollRequests /\ pollPhase' = pollPhase)
       /\ (lastOp'.op = "pollJsonSettled" /\ lastOp'.ok
               /\ lastOp'.target[1] \notin {"running", "queued"}) =>
              pollPhase' = "logs"]_vars

(***************************************************************************)
(* C26. When a save, test or deploy request fails (fetch rejects, the      *)
(* response is not ok, or its body cannot be read), the handler ends with  *)
(* nodes, connections, workflowId and the dirty flag as they were when the *)
(* response arrived, and no error leaves the handler.                      *)
(***************************************************************************)
C26_FailureLeavesGraph ==
    [][lastOp'.op = "failed" =>
         /\ nodes' = nodes
         /\ connections' = connections
         /\ workflowId' = workflowId
         /\ isDirty' = isDirty
         /\ lastOp'.n = 0
         /\ IF lastOp'.target[1] \in SaveKinds
            THEN Len(inFlight') = Len(inFlight) - 1
            ELSE requests'[lastOp'.target[1]] = "idle"]_vars

\* the first save of a new workflow with unsaved nodes got a response that is
\* not ok
C26_Witness ==
    /\ lastOp.op = "failed"
    /\ lastOp.target = <<"save", "notOk">>
    /\ workflowId = Null
    /\ isDirty
    /\ nodes # <<>>

(***************************************************************************)
(* C31. Whenever the dirty flag is off (and the load of the constructor    *)
(* has finished), the graph of the editor is the graph of the last save    *)
(* the server confirmed, or the graph as loaded when nothing was saved     *)
(* yet: an edit made while a save is in flight is still marked dirty once  *)
(* the response of that save has been handled.                             *)
(***************************************************************************)
C31_CleanMeansSaved ==
    (~isDirty /\ pendingLoads = 0) => Graph = savedGraph

(***************************************************************************)
(* C32. In the modular editor at most one save request is in flight: a     *)
(* call of saveWorkflow (button, shortcut or auto-save timer) made while   *)
(* isLoading is true sends no request, and isLoading is false again after  *)
(* every attempt, whether it succeeded, got a response that is not ok, or  *)
(* threw.                                                                  *)
(***************************************************************************)
C32_OneSaveInFlight ==
    [][/\ Len(inFlight') <= 1
       /\ isLoading => Len(inFlight') <= Len(inFlight)
       /\ lastOp'.op \in {"saved", "failed"} => (~isLoading' /\ inFlight' = <<>>)
       /\ isLoading' = (inFlight' # <<>>)]_vars

\* the button was pressed while the request of the auto-save timer was in flight
C32_Witness ==
    /\ lastOp.op = "ignored"
    /\ isLoading
    /\ Len(inFlight) = 1
    /\ inFlight[1].silent

(***************************************************************************)
(* C33. In the monolithic editor a workflow without an id is created once: *)
(* whatever the order of the calls of saveWorkflow and of the responses,   *)
(* no POST is sent while another POST is in flight, and once workflowId is *)
(* assigned every save is a PUT to that id.                                *)
(***************************************************************************)
Posts(reqs) == {i \in DOMAIN reqs : reqs[i].method = "POST"}

C33_OneCreate ==
    [][Len(inFlight') > Len(inFlight) =>
         LET req == inFlight'[Len(inFlight')] IN
         /\ Cardinality(Posts(inFlight')) <= 1
         /\ workflowId # Null => (req.method = "PUT" /\ req.id = workflowId)
         /\ workflowId = Null => req.method = "POST"]_vars

(***************************************************************************)
(* C34. After duplicateWorkflow the workflow has no id and the editor is   *)
(* dirty until a POST sent after the duplication has succeeded, so that    *)
(* the next save is a POST and not a PUT to the original workflow; this    *)
(* holds also when a save was in flight at the time of the duplication.    *)
(***************************************************************************)
C34_DuplicateAwaitsCreate ==
    awaitingCreate => (workflowId = Null /\ isDirty)

(***************************************************************************)
(* C35. loadExecutionLogs is called once per poll loop, and only by the    *)
(* step that reads a status response whose status is neither running nor   *)
(* queued; when the attempts are used up, a status request is rejected,    *)
(* its response is not ok or its body cannot be read, the loop stops: no   *)
(* logs are loaded and no request follows.                                 *)
(***************************************************************************)
C35_LogsLoadedOnce ==
    [][LET terminal == /\ pollPhase = "json"
                       /\ lastOp'.op = "pollJsonSettled"
                       /\ lastOp'.ok
                       /\ lastOp'.target[1] \notin {"running", "queued"}
       IN /\ logsLoaded' <= 1
          /\ logsLoaded' # logsLoaded => terminal
          /\ terminal => (logsLoaded' = logsLoaded + 1 /\ logsPhase' = "fetch")
          /\ pollPhase' = "stopped" => (logsLoaded' = 0 /\ logsPhase' = "idle")
          /\ pollPhase \in {"stopped", "logs"} =>
                 UNCHANGED <<pollPhase, pollRequests, pollCount, logsLoaded>>]_vars

\* the third status response reported 'completed' and the logs were fetched
C35_Witness ==
    /\ logsLoaded = 1
    /\ logsPhase = "done"
    /\ pollRequests = 3
    /\ pollPhase = "logs"

(***************************************************************************)
(* C36. In every reachable state at most one of selectedNode and           *)
(* selectedConnection is set, a selected node is the id of a node in the   *)
(* store, and a selected connection is the id of a connection in the       *)
(* store.                                                                  *)
(***************************************************************************)
C36_SelectionInStore ==
    /\ selectedNode = Null \/ selectedConnection = Null
    /\ selectedNode # Null => MapHas(nodes, selectedNode)
    /\ selectedConnection # Null => MapHas(connections, selectedConnection)

\* a connection was deleted from the store while another one was selected, and
\* the selected one is still there
C36_Witness ==
    /\ lastOp.op = "deleteConnection"
    /\ lastOp.ok
    /\ selectedConnection # Null
    /\ selectedNode = Null
    /\ MapHas(connections, selectedConnection)

(***************************************************************************)
(* C37. The operations of the viewport (panning with the pointer, the      *)
(* wheel, the zoom buttons, fit to screen, centre) change no node and no   *)
(* connection and do not set the dirty flag; the edits of nodes and        *)
(* connections leave canvasOffset and zoomLevel as they are.               *)
(***************************************************************************)
ViewportOps ==
    {"onCanvasWheel", "zoomIn", "zoomOut", "fitToScreen", "centerCanvas", "onCanvasMouseDown"}

PointerOps == {"onCanvasMouseMove", "onCanvasMouseUp"}

C37_ViewportApartFromGraph ==
    [][/\ lastOp'.op \in ViewportOps => UNCHANGED <<nodes, connections, isDirty>>
       /\ (lastOp'.op \in PointerOps /\ isPanning) =>
              UNCHANGED <<nodes, connections, isDirty>>
       /\ (lastOp'.op \in PointerOps /\ isDragging) => UNCHANGED <<canvasOffset, zoomLevel>>
       /\ lastOp'.op \notin (ViewportOps \cup PointerOps) =>
              UNCHANGED <<canvasOffset, zoomLevel>>]_vars

(***************************************************************************)
(* C38. In the modular editor with autoSave enabled, a dirty editor whose  *)
(* save requests are answered successfully at some time becomes clean at   *)
(* some time; a silent save that failed leaves the editor dirty and ready  *)
(* for the next tick of the timer.                                         *)
(***************************************************************************)
C38_AutoSaveCleans ==
    /\ isDirty ~> ~isDirty
    /\ [][lastOp'.op = "failed" => (isDirty' = isDirty /\ ~isLoading')]_vars

\* a node was dropped on the empty canvas of a new workflow, and the timer's
\* save created the workflow with that node and left the editor clean
C38_Witness ==
    /\ lastOp.op = "saved"
    /\ lastOp.target = <<"mainSave", "POST">>
    /\ ~isDirty
    /\ ~isLoading
    /\ nodes # <<>>
    /\ savedGraph = Graph
    /\ workflowId = CreatedWorkflowId
====
